---- MODULE Spec2Model ----
(***************************************************************************)
(* Host side of the ADB wire protocol (python-adb): the AdbMessage codec's *)
(* reader, the CNXN/AUTH handshake, the stream operations of               *)
(* _AdbConnection and the AdbCommands wrappers built on them.              *)
(*                                                                         *)
(* The device is the environment: every header the host reads is drawn     *)
(* from DevMsgs, or the read times out.  The host is one synchronous       *)
(* caller; pc is its position inside the operation it is running.          *)
(***************************************************************************)
EXTENDS Integers, Sequences, FiniteSets, TLC

VARIABLES
    pc,        \* position of the host: "idle" or the read it is blocked in
    op,        \* the operation running (or the last one run)
    cur,       \* the _AdbConnection the running operation works on
    conn,      \* what the caller holds from its last Open: <<>> is None
    closed,    \* ghost: conn's stream has completed a CLSE exchange
    stray,     \* payload bytes of a skipped message, still unread on the wire
    last,      \* ghost: the last header Read returned to its caller
    trace,     \* ghost: wire and caller events of the running operation
    result,    \* outcome of the operation: st, err, val
    nreads,    \* ghost: headers read by the running operation
    meth,      \* the AdbCommands method running, with its arguments
    svc,       \* AdbCommands._service_connections[b'shell:']: <<>> is None
    cres,      \* outcome of the last AdbCommands method
    estab,     \* ghost: streams acknowledged with OKAY and not yet closed
    rsa_keys,  \* the signers given to the running Connect, by number
    nsigned,   \* signatures the running Connect has sent
    fpc,       \* position of the filesync caller: "idle", "push" or "reply"
    send_buffer, \* FileSyncConnection.send_buffer[:send_idx], packet by packet
    send_idx,  \* FileSyncConnection.send_idx
    written,   \* ghost: the payloads _Flush handed to adb.Write, in order
    job,       \* the running Push: its arguments, and what is left of datafile
    fres,      \* outcome of the last filesync operation
    recv_buffer, \* FileSyncConnection.recv_buffer
    dwire,     \* bytes the device has produced and not yet sent in a WRTE
    dpk,       \* ghost: the filesync packets the device has produced
    fbpc,      \* position of the fastboot caller: "idle", "resp" or "write"
    fbjob,     \* the fastboot command running, and what is left of its source
    usbout,    \* ghost: the bulk writes of the fastboot command running
    usbin,     \* ghost: the responses the fastboot command running has read
    cbs,       \* ghost: the calls of info_cb and progress_callback, in order
    fbres,     \* outcome of the last fastboot command
    handle,    \* UsbHandle._handle of each handle: a device handle of libusb, or 0
    HANDLE_CACHE, \* UsbHandle._HANDLE_CACHE[port_path]: a handle, or "" for none
    claimed,   \* the device handle of libusb that has claimed the interface, or 0
    opens,     \* calls of Open so far
    tpc,       \* the call of Open each thread is in
    displaced, \* ghost: the handles an Open of another handle has closed
    evicted,   \* ghost: those of them not opened again since
    bulk,      \* ghost: outcome of the last bulk transfer on each handle
    built,     \* the last message the codec built, and its packed header
    rd         \* AdbMessage.Read over a transport that returns short reads

vars == <<pc, op, cur, conn, closed, stray, last, trace, result, nreads,
          meth, svc, cres, estab, rsa_keys, nsigned,
          fpc, send_buffer, send_idx, written, job, fres,
          recv_buffer, dwire, dpk,
          fbpc, fbjob, usbout, usbin, cbs, fbres,
          handle, HANDLE_CACHE, claimed, opens, tpc, displaced, evicted, bulk,
          built, rd>>

\* the state of the filesync layer
fsvars == <<fpc, send_buffer, send_idx, written, job, fres,
            recv_buffer, dwire, dpk>>

\* the state of the fastboot layer
fbvars == <<fbpc, fbjob, usbout, usbin, cbs, fbres>>

\* the state of the USB handles
usbvars == <<handle, HANDLE_CACHE, claimed, opens, tpc, displaced, evicted, bulk>>

\* the UsbHandle objects of the port path, and the threads that call them
Handles == {"h1", "h2"}
Threads == {"t1", "t2"}

\* no thread is inside Open
NoCall == [op |-> "none", h |-> "", lib |-> 0]

\* no fastboot command is running
NoFbJob == [name |-> "none", phase |-> "simple", arg |-> <<>>, N |-> 0, size |-> 0,
            wide |-> 0,
            chunk_kb |-> 1024, info_cb |-> "ok", progress_callback |-> "none",
            got |-> <<>>]

\* a str or bytes value: n characters or bytes, w bytes to the character in
\* UTF-8, and what the content is (k: its kind, a and b: its place)
Data(text, n, w, what) == [text |-> text, n |-> n, w |-> w, what |-> what]
What(k, a, b) == [k |-> k, a |-> a, b |-> b]
NoData == Data(FALSE, 0, 1, What("empty", 0, 0))

\* no filesync operation is running
\* Read has no header yet
NoHdr == [id |-> "", ints |-> <<>>]

\* no Read is running
NoRead ==
    [pc |-> "idle", wire |-> <<>>, data |-> <<>>, data_length |-> 0,
     data_checksum |-> 0, asked |-> 0, missing |-> 0, ret |-> <<>>, err |-> "",
     sent |-> <<>>]

NoJob == [kind |-> "none", filename |-> NoData, st_mode |-> 0, mtime |-> 0,
          datafile |-> [text |-> FALSE, w |-> 1, size |-> 0, left |-> 0],
          reads |-> 0, expected |-> {}, hdr |-> NoHdr, sink |-> <<>>, rx |-> 0]

-----------------------------------------------------------------------------
(* Bounds of the model *)

\* headers one operation may read before the device goes silent
MaxReads == 3

\* streams that may be left open on the transport before no more is opened
MaxStreams == 2

\* bytes of output an interactive shell produces before it goes silent
MaxOutput == 3

-----------------------------------------------------------------------------
(* Protocol constants *)

MAX_ADB_DATA == 4096
VERSION == 16777216
AUTH_TOKEN == 1
AUTH_SIGNATURE == 2
AUTH_RSAPUBLICKEY == 3
HeaderLen == 24

\* AdbMessage.ids: the commands the codec knows
ids == {"SYNC", "CNXN", "AUTH", "OPEN", "OKAY", "CLSE", "WRTE"}

\* Open's local_id
LOCAL_ID == 1

None == <<>>

\* sum(data), halving data so that MAX_ADB_DATA bytes nest twelve deep
RECURSIVE SumBytes(_)
SumBytes(s) ==
    IF s = <<>> THEN 0
    ELSE IF Len(s) = 1 THEN s[1]
    ELSE SumBytes(SubSeq(s, 1, Len(s) \div 2))
         + SumBytes(SubSeq(s, Len(s) \div 2 + 1, Len(s)))

\* AdbMessage.CalculateChecksum: the sum of the bytes.  The source masks the
\* sum with 0xFFFFFFFF, which is the identity on every sum a payload of at
\* most MAX_ADB_DATA bytes can have (4096 * 255 < 2^32)
CalculateChecksum(data) == SumBytes(data)

\* MakeWireIDs: the 32-bit word of a command, as its four little-endian
\* bytes, which are the bytes of its tag
MakeWireIDs(command) ==
    CASE command = "SYNC" -> <<83, 89, 78, 67>>
      [] command = "CNXN" -> <<67, 78, 88, 78>>
      [] command = "AUTH" -> <<65, 85, 84, 72>>
      [] command = "OPEN" -> <<79, 80, 69, 78>>
      [] command = "OKAY" -> <<79, 75, 65, 89>>
      [] command = "CLSE" -> <<67, 76, 83, 69>>
      [] command = "WRTE" -> <<87, 82, 84, 69>>
      [] command = "FAIL" -> <<70, 65, 73, 76>>
      [] command = "STAT" -> <<83, 84, 65, 84>>
      [] command = "LIST" -> <<76, 73, 83, 84>>
      [] command = "SEND" -> <<83, 69, 78, 68>>
      [] command = "RECV" -> <<82, 69, 67, 86>>
      [] command = "DENT" -> <<68, 69, 78, 84>>
      [] command = "DONE" -> <<68, 79, 78, 69>>
      [] command = "DATA" -> <<68, 65, 84, 65>>
      [] command = "QUIT" -> <<81, 85, 73, 84>>

Magic_Plain(command) == MakeWireIDs(command)

\* command ^ 0xFFFFFFFF, byte by byte
Magic(command) == [i \in 1..4 |-> 255 - MakeWireIDs(command)[i]]

\* AdbMessage.__init__ and Pack: the message as the host puts it on the wire
AdbMessage(command, arg0, arg1, data) ==
    [cmd |-> command, arg0 |-> arg0, arg1 |-> arg1, data |-> data,
     len |-> Len(data), ck |-> CalculateChecksum(data), magic |-> Magic(command)]

-----------------------------------------------------------------------------
(* The device: what a header read can bring *)

DevCmds == {"OKAY", "CLSE", "WRTE", "FAIL"}
DevArg0 == {0, 2, 3}
DevArg1 == {0, 1, 2}
Payloads == {<<>>, <<5>>, <<6>>}

\* what can be wrong with a header the device sends: nothing, its checksum
\* (off by one) or its magic (first byte zero)
Defects == {"", "ck", "magic"}
DevChecksum(d, f) == CalculateChecksum(d) + (IF f = "ck" THEN 1 ELSE 0)
DevMagic(c, f) == IF f = "magic" THEN [Magic(c) EXCEPT ![1] = 0] ELSE Magic(c)

\* a device message: a header that frames its payload.  The headers with a
\* defect carry the ids (2, 1)
DevMsg(c, a0, a1, d, f) ==
    [cmd |-> c, arg0 |-> a0, arg1 |-> a1, data |-> d, len |-> Len(d),
     ck |-> DevChecksum(d, f), magic |-> DevMagic(c, f)]
DevMsgs ==
    { DevMsg(c, a0, a1, d, "") :
        c \in DevCmds, a0 \in DevArg0, a1 \in DevArg1, d \in Payloads } \cup
    { DevMsg(c, 2, 1, d, f) : c \in DevCmds, d \in Payloads, f \in Defects }

\* what one BulkRead(24) meets: a header (and whether the reader's deadline
\* has passed by then), or nothing within the timeout
Inputs ==
    [kind : {"msg"}, m : DevMsgs, late : BOOLEAN] \cup
    { [kind |-> "timeout", m |-> AdbMessage("OKAY", 0, 0, <<>>), late |-> FALSE] }

\* the headers met while an AdbCommands method runs: the stream's own ids or
\* none, the checksum right, the deadline not passed
CmdInputs ==
    { i \in Inputs : /\ <<i.m.arg0, i.m.arg1>> \in {<<2, 1>>, <<0, 0>>}
                     /\ i.m.ck = CalculateChecksum(i.m.data)
                     /\ i.m.magic = Magic(i.m.cmd)
                     /\ ~i.late }

\* output of a command that is not ASCII: the first byte of a two-byte UTF-8
\* character alone in its WRTE, and a whole two-byte character
Utf8Payloads == {<<195>>, <<195, 169>>}
Utf8Inputs ==
    { [kind |-> "msg", m |-> DevMsg("WRTE", 2, 1, d, ""), late |-> FALSE] :
        d \in Utf8Payloads }

\* output of an interactive shell that holds the prompt whole
PromptInputs ==
    { [kind |-> "msg", m |-> DevMsg("WRTE", 2, 1, <<5, 6>>, ""), late |-> FALSE] }

\* what a header read of Connect can meet: the replies of the handshake, a
\* stream message out of place, a read timeout of a UsbHandle ("timeout":
\* ReadFailedError wrapping USBError -7) or of a TcpHandle ("tcptimeout"),
\* or another USB error ("ioerror")
ConnArg0 == {AUTH_TOKEN, AUTH_SIGNATURE}
Tokens == {<<>>, <<5>>}
ConnInputs ==
    [kind : {"msg"}, late : BOOLEAN,
     m : { DevMsg(c, a0, 0, d, f) :
             c \in {"CNXN", "AUTH", "OKAY"}, a0 \in ConnArg0, d \in Tokens,
             f \in Defects }] \cup
    { [kind |-> e, m |-> AdbMessage("OKAY", 0, 0, <<>>), late |-> FALSE] :
        e \in {"timeout", "ioerror", "tcptimeout"} }

NoMsg ==
    [cmd |-> "none", arg0 |-> 0, arg1 |-> 0, data |-> <<>>, len |-> 0, ck |-> 0,
     magic |-> <<0, 0, 0, 0>>]

\* the six fields of a header
Fields(m) ==
    [cmd |-> m.cmd, arg0 |-> m.arg0, arg1 |-> m.arg1, len |-> m.len, ck |-> m.ck,
     magic |-> m.magic]

-----------------------------------------------------------------------------
(* Ghost events *)

Tx(m) == [k |-> "tx", cmd |-> m.cmd, m |-> m]
Rx(how, cmd, data, mine, err) ==
    [k |-> "rx", cmd |-> cmd, how |-> how, data |-> data, mine |-> mine,
     err |-> err]
Yield(data) == [k |-> "yield", cmd |-> "", data |-> data]

Running == [st |-> "run", err |-> "", val |-> <<>>]
Ok(val) == [st |-> "ok", err |-> "", val |-> val]
Raise(err) == [st |-> "err", err |-> err, val |-> <<>>]

-----------------------------------------------------------------------------
(* AdbMessage.Read: one pass of its header loop, and the payload read *)

\* Unpack of a 24-byte read: a block that is not a whole header fails
Unpack(block) == IF Len(block) = HeaderLen THEN "ok" ELSE "ValueError"

Read(expected_cmds, inp) ==
    IF stray # <<>>
    THEN \* the 24-byte read returns the payload a skipped header left behind
         [how |-> "raise", err |-> Unpack(stray), hdr |-> NoMsg, data |-> <<>>,
          stray |-> <<>>]
    ELSE IF inp.kind = "timeout"
    THEN [how |-> "raise", err |-> "ReadFailedError", hdr |-> NoMsg, data |-> <<>>,
          stray |-> <<>>]
    ELSE IF inp.kind = "ioerror"
    THEN [how |-> "raise", err |-> "ReadFailedError(io)", hdr |-> NoMsg,
          data |-> <<>>, stray |-> <<>>]
    ELSE IF inp.kind = "tcptimeout"
    THEN [how |-> "raise", err |-> "TcpTimeoutException", hdr |-> NoMsg,
          data |-> <<>>, stray |-> <<>>]
    ELSE IF inp.m.cmd \notin ids
    THEN [how |-> "raise", err |-> "InvalidCommandError", hdr |-> inp.m,
          data |-> <<>>, stray |-> inp.m.data]
    ELSE IF inp.m.cmd \in expected_cmds
    THEN IF inp.m.len > 0 /\ CalculateChecksum(inp.m.data) # inp.m.ck
         THEN [how |-> "raise", err |-> "InvalidChecksumError", hdr |-> inp.m,
               data |-> <<>>, stray |-> <<>>]
         ELSE [how |-> "ret", err |-> "", hdr |-> inp.m, data |-> inp.m.data,
               stray |-> <<>>]
    ELSE IF inp.late
    THEN [how |-> "raise", err |-> "InvalidCommandError", hdr |-> inp.m,
          data |-> <<>>, stray |-> inp.m.data]
    ELSE [how |-> "skip", err |-> "", hdr |-> inp.m, data |-> <<>>,
          stray |-> inp.m.data]

\* ghost: the ids of hdr are zero or those of the running operation's stream
Mine(hdr) ==
    /\ cur # None
    /\ hdr.arg0 \in {0, cur[1].rid}
    /\ hdr.arg1 \in {0, cur[1].lid}

\* the ghost record of one Read pass
RxOf(r) == Rx(r.how, r.hdr.cmd, r.data, Mine(r.hdr), r.err)

-----------------------------------------------------------------------------
(* _AdbConnection *)

Connection(local_id, remote_id) == [lid |-> local_id, rid |-> remote_id]

\* ReadUntil with its two id checks left out
ReadUntil_NoIdCheck(c, hdr) ==
    IF hdr.cmd = "WRTE"
    THEN [err |-> "", tx |-> <<Tx(AdbMessage("OKAY", c.lid, c.rid, <<>>))>>]
    ELSE [err |-> "", tx |-> <<>>]

\* ReadUntil raising InterleavedDataError for a mismatch of either id
ReadUntil_AllInterleaved(c, hdr) ==
    IF (hdr.arg1 # 0 /\ c.lid # hdr.arg1) \/ (hdr.arg0 # 0 /\ c.rid # hdr.arg0)
    THEN [err |-> "InterleavedDataError", tx |-> <<>>]
    ELSE IF hdr.cmd = "WRTE"
    THEN [err |-> "", tx |-> <<Tx(AdbMessage("OKAY", c.lid, c.rid, <<>>))>>]
    ELSE [err |-> "", tx |-> <<>>]

\* ReadUntil, after Read returned hdr: the id checks, then the ack of a WRTE
ReadUntil(c, hdr) ==
    IF hdr.arg1 # 0 /\ c.lid # hdr.arg1
    THEN [err |-> "InterleavedDataError", tx |-> <<>>]
    ELSE IF hdr.arg0 # 0 /\ c.rid # hdr.arg0
    THEN [err |-> "InvalidResponseError", tx |-> <<>>]
    ELSE IF hdr.cmd = "WRTE"
    THEN [err |-> "", tx |-> <<Tx(AdbMessage("OKAY", c.lid, c.rid, <<>>))>>]
    ELSE [err |-> "", tx |-> <<>>]

\* Write, after ReadUntil(OKAY) returned cmd
WriteResult(cmd, data) ==
    IF cmd # "OKAY"
    THEN IF cmd = "FAIL" THEN Raise("AdbCommandFailureException")
         ELSE Raise("InvalidCommandError")
    ELSE Ok(<<Len(data)>>)

\* ReadUntilClose that ends on CLSE without sending its own
ReadUntilCloseStep_NoClse(c, cmd, data) ==
    IF cmd = "CLSE" THEN [ev |-> <<>>, more |-> FALSE, err |-> ""]
    ELSE IF cmd # "WRTE"
    THEN [ev |-> <<>>, more |-> FALSE,
          err |-> IF cmd = "FAIL" THEN "AdbCommandFailureException"
                  ELSE "InvalidCommandError"]
    ELSE [ev |-> <<Yield(data)>>, more |-> TRUE, err |-> ""]

\* ReadUntilClose, after ReadUntil(CLSE, WRTE) returned (cmd, data): what it
\* sends or yields, whether the generator goes on, and the error it raises
ReadUntilCloseStep(c, cmd, data) ==
    IF cmd = "CLSE"
    THEN [ev |-> <<Tx(AdbMessage("CLSE", c.lid, c.rid, <<>>))>>, more |-> FALSE,
          err |-> ""]
    ELSE IF cmd # "WRTE"
    THEN [ev |-> <<>>, more |-> FALSE,
          err |-> IF cmd = "FAIL" THEN "AdbCommandFailureException"
                  ELSE "InvalidCommandError"]
    ELSE [ev |-> <<Yield(data)>>, more |-> TRUE, err |-> ""]

\* Close, after ReadUntil(CLSE) returned cmd
CloseResult(cmd) ==
    IF cmd # "CLSE"
    THEN IF cmd = "FAIL" THEN Raise("AdbCommandFailureException")
         ELSE Raise("InvalidCommandError")
    ELSE Ok(<<>>)

-----------------------------------------------------------------------------
(* AdbMessage.Open *)

\* Open without the check of the reply's arg1
OpenFirst_NoIdCheck(hdr) ==
    IF hdr.cmd = "CLSE" THEN [next |-> "again", err |-> ""]
    ELSE IF hdr.cmd # "OKAY" THEN [next |-> "raise", err |-> "InvalidCommandError"]
    ELSE [next |-> "conn", err |-> ""]

\* after the first Read([CLSE, OKAY]) returned hdr
OpenFirst(hdr) ==
    IF LOCAL_ID # hdr.arg1 THEN [next |-> "raise", err |-> "InvalidResponseError"]
    ELSE IF hdr.cmd = "CLSE" THEN [next |-> "again", err |-> ""]
    ELSE IF hdr.cmd # "OKAY" THEN [next |-> "raise", err |-> "InvalidCommandError"]
    ELSE [next |-> "conn", err |-> ""]

\* Open giving up after a first CLSE whatever the second message is
OpenSecond_AlwaysNone(hdr) == [next |-> "none", err |-> ""]

\* after the second Read([CLSE, OKAY]), made when the first brought CLSE
OpenSecond(hdr) ==
    IF hdr.cmd = "CLSE" THEN [next |-> "none", err |-> ""]
    ELSE IF hdr.cmd # "OKAY" THEN [next |-> "raise", err |-> "InvalidCommandError"]
    ELSE [next |-> "conn", err |-> ""]

-----------------------------------------------------------------------------
(* The steps of the host *)

\* service destinations, two bytes standing for each service string
ShellDest == <<115, 58>>
SyncDest == <<121, 58>>
RebootDest == <<114, 58>>
Dests == {ShellDest, SyncDest}
WriteData == {<<>>, <<7>>}

\* what the next 24-byte read can meet: the bytes left on the wire come
\* first, whatever the device does next
Avail ==
    IF op = "Connect" /\ stray = <<>>
    THEN IF nreads >= MaxReads THEN {i \in ConnInputs : i.kind # "msg"} ELSE ConnInputs
    ELSE IF nreads >= MaxReads \/ stray # <<>> THEN {i \in Inputs : i.kind = "timeout"}
    ELSE IF meth.name = "none" THEN Inputs
    ELSE IF meth.name = "Shell" THEN CmdInputs \cup Utf8Inputs
    ELSE IF meth.name = "InteractiveShell"
    THEN IF Len(meth.stdout_stream) >= MaxOutput
         THEN {i \in Inputs : i.kind = "timeout"}
         ELSE CmdInputs \cup PromptInputs
    ELSE CmdInputs

\* ghost bookkeeping of one Read pass r, followed by the events ev
Seen(r, ev) ==
    /\ trace' = trace \o <<RxOf(r)>> \o ev
    /\ last' = IF r.how = "ret" THEN Fields(r.hdr) ELSE last
    /\ stray' = r.stray
    /\ nreads' = nreads + 1

\* entry into a stream operation on connection c: what it sends before its
\* first read is ev, and p is the read it then blocks in
Call(name, c, ev, p) ==
    /\ op' = name
    /\ cur' = c
    /\ trace' = ev
    /\ result' = Running
    /\ last' = Fields(NoMsg)
    /\ nreads' = 0
    /\ pc' = p
    /\ UNCHANGED stray

Finish(res) ==
    /\ pc' = "idle"
    /\ result' = res

\* AdbMessage.Open up to its first Read
CallOpen(destination) ==
    /\ Call("Open", None,
            <<Tx(AdbMessage("OPEN", LOCAL_ID, 0, destination \o <<0>>))>>, "open1")
    /\ UNCHANGED <<conn, closed>>

\* _AdbConnection.Write up to its ReadUntil
CallWrite(c, data) ==
    /\ Call("Write", c, <<Tx(AdbMessage("WRTE", c[1].lid, c[1].rid, data))>>, "write")
    /\ UNCHANGED <<conn, closed>>

\* _AdbConnection.ReadUntil(b'WRTE')
CallReadUntil(c) ==
    /\ Call("ReadUntil", c, <<>>, "ru")
    /\ UNCHANGED <<conn, closed>>

\* _AdbConnection.ReadUntilClose, iterated to its end
CallReadUntilClose(c) ==
    /\ Call("ReadUntilClose", c, <<>>, "ruc")
    /\ UNCHANGED <<conn, closed>>

\* _AdbConnection.Close up to its ReadUntil
CallClose(c) ==
    /\ Call("Close", c, <<Tx(AdbMessage("CLSE", c[1].lid, c[1].rid, <<>>))>>, "close")
    /\ UNCHANGED <<conn, closed>>

NoCmd == [name |-> "none", has_cmd |-> FALSE, delim |-> FALSE, stdout_stream |-> <<>>]

\* a caller of the protocol module is between two calls
Free == pc = "idle" /\ meth = NoCmd

Direct == UNCHANGED <<meth, svc, cres, estab, rsa_keys, nsigned, fsvars, fbvars, usbvars, built, rd>>

\* the caller calls AdbMessage.Open(usb, destination)
Open(destination) == Free /\ CallOpen(destination) /\ Direct

\* the caller calls conn.Write(data)
Write(data) == Free /\ conn # None /\ CallWrite(conn, data) /\ Direct

\* the caller calls conn.ReadUntil(b'WRTE')
ReadUntilCall == Free /\ conn # None /\ CallReadUntil(conn) /\ Direct

\* the caller iterates conn.ReadUntilClose() to its end
ReadUntilClose == Free /\ conn # None /\ CallReadUntilClose(conn) /\ Direct

\* the caller calls conn.Close()
Close == Free /\ conn # None /\ CallClose(conn) /\ Direct

\* ghost: conn and closed follow the streams of a direct caller only
Held(old, new) == IF meth = NoCmd THEN new ELSE old

\* Open returns the connection made from hdr to the caller
OpenReturns(hdr) ==
    /\ Finish(Ok(<<Connection(LOCAL_ID, hdr.arg0)>>))
    /\ cur' = <<Connection(LOCAL_ID, hdr.arg0)>>
    /\ conn' = Held(conn, <<Connection(LOCAL_ID, hdr.arg0)>>)
    /\ closed' = FALSE

OpenRaises(err) ==
    /\ Finish(Raise(err))
    /\ UNCHANGED <<cur, conn, closed>>

OpenReply ==
    /\ pc = "open1"
    /\ \E inp \in Avail :
         LET r == Read({"CLSE", "OKAY"}, inp)
             o == OpenFirst(r.hdr)
         IN /\ Seen(r, <<>>)
            /\ CASE r.how = "raise" -> OpenRaises(r.err)
                 [] r.how = "skip" -> UNCHANGED <<pc, result, cur, conn, closed>>
                 [] r.how = "ret" /\ o.next = "raise" -> OpenRaises(o.err)
                 [] r.how = "ret" /\ o.next = "again" ->
                        /\ pc' = "open2"
                        /\ UNCHANGED <<result, cur, conn, closed>>
                 [] r.how = "ret" /\ o.next = "conn" -> OpenReturns(r.hdr)
    /\ UNCHANGED <<op, meth, svc, cres, estab, rsa_keys, nsigned, fsvars, fbvars, usbvars, built, rd>>

OpenReply2 ==
    /\ pc = "open2"
    /\ \E inp \in Avail :
         LET r == Read({"CLSE", "OKAY"}, inp)
             o == OpenSecond(r.hdr)
         IN /\ Seen(r, <<>>)
            /\ CASE r.how = "raise" -> OpenRaises(r.err)
                 [] r.how = "skip" -> UNCHANGED <<pc, result, cur, conn, closed>>
                 [] r.how = "ret" /\ o.next = "raise" -> OpenRaises(o.err)
                 [] r.how = "ret" /\ o.next = "none" ->
                        /\ Finish(Ok(None))
                        /\ conn' = Held(conn, None)
                        /\ closed' = FALSE
                        /\ UNCHANGED cur
                 [] r.how = "ret" /\ o.next = "conn" -> OpenReturns(r.hdr)
    /\ UNCHANGED <<op, meth, svc, cres, estab, rsa_keys, nsigned, fsvars, fbvars, usbvars, built, rd>>

WriteAck ==
    /\ pc = "write"
    /\ \E inp \in Avail :
         LET r == Read({"OKAY"}, inp)
             u == ReadUntil(cur[1], r.hdr)
         IN CASE r.how = "raise" -> Seen(r, <<>>) /\ Finish(Raise(r.err))
              [] r.how = "skip" -> Seen(r, <<>>) /\ UNCHANGED <<pc, result>>
              [] r.how = "ret" /\ u.err # "" -> Seen(r, <<>>) /\ Finish(Raise(u.err))
              [] r.how = "ret" /\ u.err = "" ->
                     /\ Seen(r, u.tx)
                     /\ Finish(WriteResult(r.hdr.cmd, trace[1].m.data))
    /\ UNCHANGED <<op, cur, conn, closed, meth, svc, cres, estab, rsa_keys, nsigned, fsvars, fbvars, usbvars, built, rd>>

ReadUntilMsg ==
    /\ pc = "ru"
    /\ \E inp \in Avail :
         LET r == Read({"WRTE"}, inp)
             u == ReadUntil(cur[1], r.hdr)
         IN CASE r.how = "raise" -> Seen(r, <<>>) /\ Finish(Raise(r.err))
              [] r.how = "skip" -> Seen(r, <<>>) /\ UNCHANGED <<pc, result>>
              [] r.how = "ret" /\ u.err # "" -> Seen(r, <<>>) /\ Finish(Raise(u.err))
              [] r.how = "ret" /\ u.err = "" ->
                     /\ Seen(r, u.tx)
                     /\ Finish(Ok(<<r.hdr.cmd, r.data>>))
    /\ UNCHANGED <<op, cur, conn, closed, meth, svc, cres, estab, rsa_keys, nsigned, fsvars, fbvars, usbvars, built, rd>>

\* bytes.decode('utf8'), for bytes below 224 (ASCII and two-byte sequences):
\* the characters, or the failure on a byte that starts no complete character
RECURSIVE Utf8Decode(_)
Utf8Decode(data) ==
    IF data = <<>> THEN [ok |-> TRUE, chars |-> <<>>]
    ELSE IF Head(data) < 128
    THEN LET t == Utf8Decode(Tail(data))
         IN [ok |-> t.ok, chars |-> <<Head(data)>> \o t.chars]
    ELSE IF /\ Head(data) >= 194 /\ Len(data) >= 2
            /\ data[2] >= 128 /\ data[2] < 192
    THEN LET t == Utf8Decode(Tail(Tail(data)))
         IN [ok |-> t.ok,
             chars |-> <<(Head(data) - 192) * 64 + (data[2] - 128)>> \o t.chars]
    ELSE [ok |-> FALSE, chars |-> <<>>]

\* the consumer of the generator takes data: StreamingCommand decodes every
\* payload it is given, a direct caller takes the bytes
Consumes(data) == meth.name = "Shell" => Utf8Decode(data).ok

ReadUntilCloseMsg ==
    /\ pc = "ruc"
    /\ \E inp \in Avail :
         LET r == Read({"CLSE", "WRTE"}, inp)
             u == ReadUntil(cur[1], r.hdr)
             g == ReadUntilCloseStep(cur[1], r.hdr.cmd, r.data)
         IN CASE r.how = "raise" ->
                     Seen(r, <<>>) /\ Finish(Raise(r.err)) /\ UNCHANGED closed
              [] r.how = "skip" ->
                     Seen(r, <<>>) /\ UNCHANGED <<pc, result, closed>>
              [] r.how = "ret" /\ u.err # "" ->
                     Seen(r, <<>>) /\ Finish(Raise(u.err)) /\ UNCHANGED closed
              [] r.how = "ret" /\ u.err = "" /\ g.err # "" ->
                     Seen(r, u.tx) /\ Finish(Raise(g.err)) /\ UNCHANGED closed
              [] r.how = "ret" /\ u.err = "" /\ g.err = "" /\ g.more ->
                     /\ Seen(r, u.tx \o g.ev)
                     /\ IF Consumes(r.data) THEN UNCHANGED <<pc, result>>
                        ELSE Finish(Raise("UnicodeDecodeError"))
                     /\ UNCHANGED closed
              [] r.how = "ret" /\ u.err = "" /\ g.err = "" /\ ~g.more ->
                     /\ Seen(r, u.tx \o g.ev)
                     /\ Finish(Ok(<<>>))
                     /\ closed' = Held(closed, TRUE)
    /\ UNCHANGED <<op, cur, conn, meth, svc, cres, estab, rsa_keys, nsigned, fsvars, fbvars, usbvars, built, rd>>

CloseAck ==
    /\ pc = "close"
    /\ \E inp \in Avail :
         LET r == Read({"CLSE"}, inp)
             u == ReadUntil(cur[1], r.hdr)
         IN CASE r.how = "raise" ->
                     Seen(r, <<>>) /\ Finish(Raise(r.err)) /\ UNCHANGED closed
              [] r.how = "skip" ->
                     Seen(r, <<>>) /\ UNCHANGED <<pc, result, closed>>
              [] r.how = "ret" /\ u.err # "" ->
                     Seen(r, <<>>) /\ Finish(Raise(u.err)) /\ UNCHANGED closed
              [] r.how = "ret" /\ u.err = "" ->
                     /\ Seen(r, u.tx)
                     /\ Finish(CloseResult(r.hdr.cmd))
                     /\ closed' = Held(closed, CloseResult(r.hdr.cmd).st = "ok")
    /\ UNCHANGED <<op, cur, conn, meth, svc, cres, estab, rsa_keys, nsigned, fsvars, fbvars, usbvars, built, rd>>

Init ==
    /\ pc = "idle"
    /\ op = "none"
    /\ cur = None
    /\ conn = None
    /\ closed = FALSE
    /\ stray = <<>>
    /\ last = Fields(NoMsg)
    /\ trace = <<>>
    /\ result = Ok(<<>>)
    /\ nreads = 0
    /\ estab = 0
    /\ meth = NoCmd
    /\ svc = None
    /\ cres = Ok(<<>>)
    /\ rsa_keys = <<>>
    /\ nsigned = 0
    /\ fpc = "idle"
    /\ send_buffer = <<>>
    /\ send_idx = 0
    /\ written = <<>>
    /\ job = NoJob
    /\ fres = Ok(<<>>)
    /\ recv_buffer = <<>>
    /\ dwire = <<>>
    /\ dpk = <<>>
    /\ fbpc = "idle"
    /\ fbjob = NoFbJob
    /\ usbout = <<>>
    /\ usbin = <<>>
    /\ cbs = <<>>
    /\ fbres = Ok(<<>>)
    /\ handle = [h \in Handles |-> 0]
    /\ HANDLE_CACHE = ""
    /\ claimed = 0
    /\ opens = 0
    /\ tpc = [t \in Threads |-> NoCall]
    /\ displaced = {}
    /\ evicted = {}
    /\ bulk = [h \in Handles |-> "none"]
    /\ built = [command |-> "none", data |-> <<>>, header |-> <<>>]
    /\ rd = NoRead

Next ==
    \/ \E d \in Dests : Open(d)
    \/ OpenReply
    \/ OpenReply2
    \/ \E d \in WriteData : Write(d)
    \/ WriteAck
    \/ ReadUntilCall
    \/ ReadUntilMsg
    \/ ReadUntilClose
    \/ ReadUntilCloseMsg
    \/ Close
    \/ CloseAck

Spec == Init /\ [][Next]_vars

-----------------------------------------------------------------------------
(* Views of the ghost trace *)

StreamOps == {"Write", "ReadUntil", "ReadUntilClose", "Close"}

IsTx(e, c) == e.k = "tx" /\ e.cmd = c
IsRet(e, c) == e.k = "rx" /\ e.how = "ret" /\ e.cmd = c
Rets == SelectSeq(trace, LAMBDA e : e.k = "rx" /\ e.how = "ret")
Sent == SelectSeq(trace, LAMBDA e : e.k = "tx")
Yields == SelectSeq(trace, LAMBDA e : e.k = "yield")
WrteRets == SelectSeq(trace, LAMBDA e : IsRet(e, "WRTE"))
Datas(s) == [i \in DOMAIN s |-> s[i].data]
Cmds(s) == [i \in DOMAIN s |-> s[i].cmd]

-----------------------------------------------------------------------------
(* AdbCommands: the methods built on the stream operations *)

\* the method ends: it returns or raises res, and the frame of its last
\* stream operation is gone
Done(res) ==
    /\ meth' = NoCmd
    /\ cres' = res
    /\ op' = "none"
    /\ cur' = None
    /\ trace' = <<>>
    /\ result' = Ok(<<>>)
    /\ last' = Fields(NoMsg)
    /\ nreads' = 0
    /\ UNCHANGED <<pc, conn, closed, stray>>

Method(name, has_cmd, delim) ==
    [name |-> name, has_cmd |-> has_cmd, delim |-> delim, stdout_stream |-> <<>>]

\* the str of each payload
Decoded(ss) == [i \in DOMAIN ss |-> Utf8Decode(ss[i]).chars]

RECURSIVE Join(_)
Join(ss) == IF ss = <<>> THEN <<>> ELSE Head(ss) \o Join(Tail(ss))

\* Shell, StreamingShell (iterated to its end), Remount, Root:
\* AdbMessage.Command, up to the first read of its Open
Shell ==
    /\ Free
    /\ UNCHANGED <<rsa_keys, nsigned, fsvars, fbvars, usbvars, built, rd>>
    /\ estab < MaxStreams
    /\ meth' = Method("Shell", FALSE, FALSE)
    /\ CallOpen(ShellDest)
    /\ cres' = Running
    /\ UNCHANGED <<svc, estab>>

\* StreamingCommand and the join of Command, once a stream operation ended
CommandStep ==
    /\ meth.name = "Shell"
    /\ UNCHANGED <<rsa_keys, nsigned, fsvars, fbvars, usbvars, built, rd>>
    /\ pc = "idle"
    /\ CASE op = "Open" /\ result.st = "err" -> Done(result) /\ UNCHANGED <<svc, estab>>
         [] op = "Open" /\ result.st = "ok" /\ result.val = None ->
                Done(Raise("AttributeError")) /\ UNCHANGED <<svc, estab>>
         [] op = "Open" /\ result.st = "ok" /\ result.val # None ->
                /\ CallReadUntilClose(result.val)
                /\ estab' = estab + 1
                /\ UNCHANGED <<meth, svc, cres>>
         [] op = "ReadUntilClose" /\ result.st = "err" ->
                Done(result) /\ UNCHANGED <<svc, estab>>
         [] op = "ReadUntilClose" /\ result.st = "ok" ->
                /\ Done(Ok(Join(Decoded(Datas(Yields)))))
                /\ estab' = estab - 1
                /\ UNCHANGED svc

\* Reboot, RebootBootloader: an Open whose result is dropped
Reboot ==
    /\ Free
    /\ UNCHANGED <<rsa_keys, nsigned, fsvars, fbvars, usbvars, built, rd>>
    /\ estab < MaxStreams
    /\ meth' = Method("Reboot", FALSE, FALSE)
    /\ CallOpen(RebootDest)
    /\ cres' = Running
    /\ UNCHANGED <<svc, estab>>

\* Reboot closing the stream its Open returned
RebootStep_Closes ==
    /\ meth.name = "Reboot"
    /\ UNCHANGED <<rsa_keys, nsigned, fsvars, fbvars, usbvars, built, rd>>
    /\ pc = "idle"
    /\ op = "Open"
    /\ IF result.st = "ok" /\ result.val # None
       THEN CallClose(result.val) /\ estab' = estab + 1 /\ UNCHANGED <<meth, cres>>
       ELSE (IF result.st = "err" THEN Done(result) ELSE Done(Ok(<<>>)))
            /\ UNCHANGED estab
    /\ UNCHANGED svc

\* Reboot once its Open ended
RebootStep ==
    /\ meth.name = "Reboot"
    /\ UNCHANGED <<rsa_keys, nsigned, fsvars, fbvars, usbvars, built, rd>>
    /\ pc = "idle"
    /\ op = "Open"
    /\ IF result.st = "err" THEN Done(result) ELSE Done(Ok(<<>>))
    /\ estab' = IF result.st = "ok" /\ result.val # None THEN estab + 1 ELSE estab
    /\ UNCHANGED svc

\* the delimiter an interactive caller waits for, which has no b'@', and
\* the line it sends
Delim == <<5, 6>>
ShellLine == <<7, 13>>

\* partial_delim in data
DelimIn(data) ==
    \E i \in 1..(Len(data) - Len(Delim) + 1) :
        SubSeq(data, i, i + Len(Delim) - 1) = Delim

\* InteractiveShellCommand(conn, ...) from its start to its first read
InteractiveShellCommand(c, has_cmd) ==
    IF has_cmd THEN CallWrite(c, ShellLine) ELSE CallReadUntil(c)

\* InteractiveShell(cmd, delim): _get_service_connection(b'shell:') and then
\* InteractiveShellCommand, up to the first read
InteractiveShell(has_cmd, delim) ==
    /\ Free
    /\ UNCHANGED <<rsa_keys, nsigned, fsvars, fbvars, usbvars, built, rd>>
    /\ meth' = Method("InteractiveShell", has_cmd, delim)
    /\ IF svc # None
       THEN InteractiveShellCommand(svc, has_cmd)
       ELSE estab < MaxStreams /\ CallOpen(ShellDest)
    /\ cres' = Running
    /\ UNCHANGED <<svc, estab>>

\* InteractiveShell once a stream operation ended.  Every exception raised
\* inside InteractiveShellCommand is caught there, and stdout is returned
InteractiveShellStep ==
    /\ meth.name = "InteractiveShell"
    /\ UNCHANGED <<rsa_keys, nsigned, fsvars, fbvars, usbvars, built, rd>>
    /\ pc = "idle"
    /\ CASE op = "Open" /\ result.st = "err" -> Done(result) /\ UNCHANGED <<svc, estab>>
         [] op = "Open" /\ result.st = "ok" /\ result.val = None ->
                Done(Ok(<<>>)) /\ svc' = None /\ UNCHANGED estab
         [] op = "Open" /\ result.st = "ok" /\ result.val # None ->
                /\ svc' = result.val
                /\ estab' = estab + 1
                /\ InteractiveShellCommand(result.val, meth.has_cmd)
                /\ UNCHANGED <<meth, cres>>
         [] op = "Write" /\ result.st = "err" -> Done(Ok(<<>>)) /\ UNCHANGED <<svc, estab>>
         [] op = "Write" /\ result.st = "ok" ->
                CallReadUntil(cur) /\ UNCHANGED <<meth, svc, cres, estab, rsa_keys, nsigned, fsvars, fbvars, usbvars, built, rd>>
         [] op = "ReadUntil" /\ result.st = "err" ->
                Done(Ok(<<>>)) /\ UNCHANGED <<svc, estab>>
         [] op = "ReadUntil" /\ result.st = "ok" ->
                IF meth.has_cmd /\ meth.delim /\ ~DelimIn(result.val[2])
                THEN /\ CallReadUntil(cur)
                     /\ meth' = [meth EXCEPT !.stdout_stream = @ \o result.val[2]]
                     /\ UNCHANGED <<svc, cres, estab>>
                ELSE Done(Ok(<<>>)) /\ UNCHANGED <<svc, estab>>

\* what a sync: payload stands for: <<>> leaves the receive buffer short of a
\* packet, <<5>> completes the packet that ends the operation, <<6>> is a
\* FAIL packet
SyncReply(data) ==
    IF data = <<>> THEN "more" ELSE IF data = <<5>> THEN "done" ELSE "fail"

SyncRequest == <<7>>
SyncMethods == {"Stat", "List", "Pull", "Push"}

\* Stat, List, Pull, Push: up to the first read of Open(b'sync:')
Sync(name) ==
    /\ Free
    /\ UNCHANGED <<rsa_keys, nsigned, fsvars, fbvars, usbvars, built, rd>>
    /\ estab < MaxStreams
    /\ meth' = Method(name, FALSE, FALSE)
    /\ CallOpen(SyncDest)
    /\ cres' = Running
    /\ UNCHANGED <<svc, estab>>

\* Stat, List, Pull, Push once a stream operation ended: the request is
\* flushed with Write by the first filesync Read, packets are read with
\* ReadUntil(b'WRTE'), and connection.Close() follows the filesync call
SyncStep ==
    /\ meth.name \in SyncMethods
    /\ UNCHANGED <<rsa_keys, nsigned, fsvars, fbvars, usbvars, built, rd>>
    /\ pc = "idle"
    /\ CASE result.st = "err" -> Done(result) /\ UNCHANGED <<svc, estab>>
         [] op = "Open" /\ result.st = "ok" /\ result.val = None ->
                Done(Raise("AttributeError")) /\ UNCHANGED <<svc, estab>>
         [] op = "Open" /\ result.st = "ok" /\ result.val # None ->
                /\ CallWrite(result.val, SyncRequest)
                /\ estab' = estab + 1
                /\ UNCHANGED <<meth, svc, cres>>
         [] op = "Write" /\ result.st = "ok" ->
                CallReadUntil(cur) /\ UNCHANGED <<meth, svc, cres, estab, rsa_keys, nsigned, fsvars, fbvars, usbvars, built, rd>>
         [] op = "ReadUntil" /\ result.st = "ok" /\ SyncReply(result.val[2]) = "more" ->
                CallReadUntil(cur) /\ UNCHANGED <<meth, svc, cres, estab, rsa_keys, nsigned, fsvars, fbvars, usbvars, built, rd>>
         [] op = "ReadUntil" /\ result.st = "ok" /\ SyncReply(result.val[2]) = "fail" ->
                /\ Done(Raise(IF meth.name = "Push" THEN "PushFailedError"
                              ELSE "AdbCommandFailureException"))
                /\ UNCHANGED <<svc, estab>>
         [] op = "ReadUntil" /\ result.st = "ok" /\ SyncReply(result.val[2]) = "done" ->
                CallClose(cur) /\ UNCHANGED <<meth, svc, cres, estab, rsa_keys, nsigned, fsvars, fbvars, usbvars, built, rd>>
         [] op = "Close" /\ result.st = "ok" ->
                /\ Done(Ok(<<>>))
                /\ estab' = estab - 1
                /\ UNCHANGED svc

NextCmd ==
    \/ Shell
    \/ CommandStep
    \/ Reboot
    \/ RebootStep
    \/ \E c \in BOOLEAN, d \in BOOLEAN : InteractiveShell(c, d)
    \/ InteractiveShellStep
    \/ \E n \in SyncMethods : Sync(n)
    \/ SyncStep
    \/ OpenReply
    \/ OpenReply2
    \/ WriteAck
    \/ ReadUntilMsg
    \/ ReadUntilCloseMsg
    \/ CloseAck

SpecCmd == Init /\ [][NextCmd]_vars

-----------------------------------------------------------------------------
(* AdbMessage.Connect *)

MaxKeys == 2

\* the signers a caller supplies: lists of distinct signer numbers
KeyLists == {ks \in UNION {[1..n -> 1..MaxKeys] : n \in 0..MaxKeys} :
                \A i, j \in DOMAIN ks : i # j => ks[i] # ks[j]}

\* AuthSigner.Sign and GetPublicKey of signer k, told apart by their first byte
Sign(k, data) == <<100 + k>> \o data
GetPublicKey(k) == <<200 + k>>

\* b'host::%s\0' % banner, for the caller's banner
Banner == <<110>>
HostBanner == <<104, 111, 115, 116, 58, 58>> \o Banner \o <<0>>

Signature(k, token) == Tx(AdbMessage("AUTH", AUTH_SIGNATURE, 0, Sign(k, token)))
PublicKey(keys) ==
    Tx(AdbMessage("AUTH", AUTH_RSAPUBLICKEY, 0, GetPublicKey(keys[1]) \o <<0>>))

\* the caller calls AdbMessage.Connect(usb, banner, rsa_keys): up to the
\* first Read
Connect(keys) ==
    /\ Free
    /\ Call("Connect", None,
            <<Tx(AdbMessage("CNXN", VERSION, MAX_ADB_DATA, HostBanner))>>, "cnxn")
    /\ rsa_keys' = keys
    /\ nsigned' = 0
    /\ UNCHANGED <<conn, closed, meth, svc, cres, estab, fsvars, fbvars, usbvars, built, rd>>

\* the loop signing with the first signer every time
NextKey_FirstSigner(keys, n, arg0, banner) ==
    IF n = Len(keys)
    THEN [ev |-> <<PublicKey(keys)>>, pc |-> "pubkey", err |-> ""]
    ELSE IF arg0 # AUTH_TOKEN
    THEN [ev |-> <<>>, pc |-> "idle", err |-> "InvalidResponseError"]
    ELSE [ev |-> <<Signature(keys[1], banner)>>, pc |-> "sig", err |-> ""]

\* the top of the loop over rsa_keys, entered with the last reply (arg0, banner)
\* and n signatures sent: the events sent, and where Connect goes next
NextKey(keys, n, arg0, banner) ==
    IF n = Len(keys)
    THEN [ev |-> <<PublicKey(keys)>>, pc |-> "pubkey", err |-> ""]
    ELSE IF arg0 # AUTH_TOKEN
    THEN [ev |-> <<>>, pc |-> "idle", err |-> "InvalidResponseError"]
    ELSE [ev |-> <<Signature(keys[n + 1], banner)>>, pc |-> "sig", err |-> ""]

\* Connect returning the payload of an AUTH when it has no signers
AfterReply_NoKeysReturns(keys, n, hdr, banner) ==
    IF hdr.cmd = "CNXN" \/ keys = <<>> THEN [ev |-> <<>>, pc |-> "idle", err |-> ""]
    ELSE NextKey(keys, n, hdr.arg0, banner)

\* Connect entering the loop over its signers whatever the reply is
AfterReply_SignsFirst(keys, n, hdr, banner) ==
    IF keys = <<>>
    THEN IF hdr.cmd = "CNXN" THEN [ev |-> <<>>, pc |-> "idle", err |-> ""]
         ELSE [ev |-> <<>>, pc |-> "idle", err |-> "DeviceAuthError"]
    ELSE NextKey(keys, n, hdr.arg0, banner)

\* after Read returned the reply to CNXN or to a signature
AfterReply(keys, n, hdr, banner) ==
    IF hdr.cmd = "CNXN" THEN [ev |-> <<>>, pc |-> "idle", err |-> ""]
    ELSE IF keys = <<>> THEN [ev |-> <<>>, pc |-> "idle", err |-> "DeviceAuthError"]
    ELSE NextKey(keys, n, hdr.arg0, banner)

\* one pass of a Read([CNXN, AUTH]) of Connect, and what follows its return
ConnectStep(r) ==
    LET a == AfterReply(rsa_keys, nsigned, r.hdr, r.data)
    IN CASE r.how = "raise" ->
                Seen(r, <<>>) /\ Finish(Raise(r.err)) /\ UNCHANGED nsigned
         [] r.how = "skip" ->
                Seen(r, <<>>) /\ UNCHANGED <<pc, result, nsigned>>
         [] r.how = "ret" /\ a.err # "" ->
                Seen(r, <<>>) /\ Finish(Raise(a.err)) /\ UNCHANGED nsigned
         [] r.how = "ret" /\ a.err = "" /\ a.pc = "idle" ->
                Seen(r, <<>>) /\ Finish(Ok(r.data)) /\ UNCHANGED nsigned
         [] r.how = "ret" /\ a.err = "" /\ a.pc # "idle" ->
                /\ Seen(r, a.ev)
                /\ pc' = a.pc
                /\ nsigned' = IF a.pc = "sig" THEN nsigned + 1 ELSE nsigned
                /\ UNCHANGED result

\* the reply to CNXN
ConnectReply ==
    /\ pc = "cnxn"
    /\ \E inp \in Avail : ConnectStep(Read({"CNXN", "AUTH"}, inp))
    /\ UNCHANGED <<op, cur, conn, closed, meth, svc, cres, estab, rsa_keys, fsvars, fbvars, usbvars, built, rd>>

\* the reply to a signature
SignatureReply ==
    /\ pc = "sig"
    /\ \E inp \in Avail : ConnectStep(Read({"CNXN", "AUTH"}, inp))
    /\ UNCHANGED <<op, cur, conn, closed, meth, svc, cres, estab, rsa_keys, fsvars, fbvars, usbvars, built, rd>>

\* the errors that are instances of usb_exceptions.ReadFailedError, and the
\* value of the USB error one wraps
ReadFailedErrors == {"ReadFailedError", "ReadFailedError(io)"}
UsbErrorValue(err) == IF err = "ReadFailedError" THEN 0 - 7 ELSE 0 - 1

\* except ReadFailedError as e: e.usb_error.value == -7
CaughtTimeout(err) == err \in ReadFailedErrors /\ UsbErrorValue(err) = 0 - 7

\* the wait for CNXN after the public key, under auth_timeout_ms
PublicKeyReply ==
    /\ pc = "pubkey"
    /\ \E inp \in Avail :
         LET r == Read({"CNXN"}, inp)
         IN /\ Seen(r, <<>>)
            /\ CASE r.how = "raise" /\ CaughtTimeout(r.err) ->
                        Finish(Raise("DeviceAuthError"))
                 [] r.how = "raise" /\ ~CaughtTimeout(r.err) -> Finish(Raise(r.err))
                 [] r.how = "skip" -> UNCHANGED <<pc, result>>
                 [] r.how = "ret" -> Finish(Ok(r.data))
    /\ UNCHANGED <<op, cur, conn, closed, meth, svc, cres, estab, rsa_keys, nsigned, fsvars, fbvars, usbvars, built, rd>>

NextConnect ==
    \/ \E keys \in KeyLists : Connect(keys)
    \/ ConnectReply
    \/ SignatureReply
    \/ PublicKeyReply

SpecConnect == Init /\ [][NextConnect]_vars

-----------------------------------------------------------------------------
(* The filesync layer: FileSyncConnection and FilesyncProtocol.Push *)

MAX_PUSH_DATA == 2048
DEFAULT_PUSH_MODE == 33272
send_header_len == 8

\* calls of Send one caller makes on a connection before it reads
MaxSends == 3

\* FileSyncConnection.ids
FileSyncIds == {"STAT", "LIST", "SEND", "RECV", "DENT", "DONE", "DATA", "OKAY",
                "FAIL", "QUIT"}

\* data.encode('utf8')
Encode(data) == Data(FALSE, data.n * data.w, 1, data.what)

\* the decimal digits of a non-negative integer, as '{}'.format prints it
RECURSIVE Digits(_)
Digits(n) == IF n < 10 THEN 1 ELSE 1 + Digits(n \div 10)

\* '{},{}'.format(filename, int(st_mode)).encode('utf-8')
FileInfo(filename, st_mode) ==
    Encode(Data(TRUE, filename.n + 1 + Digits(st_mode), filename.w,
                What("fileinfo", filename.n, st_mode)))

\* struct.pack(b'<2I', id, size) + data
Packet(command_id, size, data) == [id |-> command_id, size |-> size, data |-> data]
PacketLen(buf) == send_header_len + buf.data.n

\* a FileSyncConnection, as far as sending goes
Sender(buf, idx, out) == [buf |-> buf, idx |-> idx, out |-> out]

\* FileSyncConnection._CanAddToSendBuffer
CanAddToSendBuffer(idx, data_len) == idx + (send_header_len + data_len) < MAX_ADB_DATA

\* FileSyncConnection._Flush: adb.Write(send_buffer[:send_idx]), send_idx = 0
Flush(fs) ==
    Sender(<<>>, 0, Append(fs.out, [n |-> fs.idx, packets |-> fs.buf]))

\* FileSyncConnection.Send(command_id, data, size)
Send(fs, command_id, data, size) ==
    LET bytes == IF data.n > 0 /\ data.text THEN Encode(data) ELSE data
        sz == IF data.n > 0 THEN bytes.n ELSE size
        f == IF ~CanAddToSendBuffer(fs.idx, bytes.n) THEN Flush(fs) ELSE fs
        buf == Packet(command_id, sz, bytes)
    IN Sender(Append(f.buf, buf), f.idx + PacketLen(buf), f.out)

ReadFlush_Never(fs) == fs

\* the head of FileSyncConnection.Read: if self.send_idx: self._Flush()
ReadFlush(fs) == IF fs.idx # 0 THEN Flush(fs) ELSE fs

\* struct.pack(b'<I', n) and struct.unpack(b'<I', b): little-endian words
LE4(n) == <<n % 256, (n \div 256) % 256, (n \div 65536) % 256, (n \div 16777216) % 256>>
UnLE4(b) == b[1] + 256 * b[2] + 65536 * b[3] + 16777216 * b[4]

\* the i-th 4-byte word of a header
Word(header_data, i) == SubSeq(header_data, 4 * i - 3, 4 * i)

\* wire_to_id[header[0]]: a tag no id has raises KeyError
WireToId(tag) ==
    IF \E c \in FileSyncIds : MakeWireIDs(c) = tag
    THEN CHOOSE c \in FileSyncIds : MakeWireIDs(c) = tag
    ELSE "KeyError"

\* struct.unpack(recv_header_format, header_data) for b'<2I', b'<4I', b'<5I':
\* the id of header[0], and header[1:]
StructUnpack(fmt, header_data) ==
    [id |-> WireToId(Word(header_data, 1)),
     ints |-> [i \in 1..(fmt - 1) |-> UnLE4(Word(header_data, i + 1))]]

\* how a Read stands: blocked in _ReadBuffered, returned, or raised
Waits(buf, hdr) ==
    [how |-> "wait", id |-> "", header |-> <<>>, data |-> <<>>, buf |-> buf,
     hdr |-> hdr, err |-> ""]
Returns(id, header, data, buf) ==
    [how |-> "ret", id |-> id, header |-> header, data |-> data, buf |-> buf,
     hdr |-> NoHdr, err |-> ""]
Raises(err, buf) ==
    [how |-> "raise", id |-> "", header |-> <<>>, data |-> <<>>, buf |-> buf,
     hdr |-> NoHdr, err |-> err]

\* the tail of Read with a _ReadBuffered that keeps, of the bytes received,
\* only those of the last message
ReadData_KeepsLast(buf, hdr) ==
    LET size == hdr.ints[Len(hdr.ints)]
    IN IF Len(buf) < size
       THEN Waits(<<>>, hdr)
       ELSE Returns(hdr.id, SubSeq(hdr.ints, 1, Len(hdr.ints) - 1),
                    SubSeq(buf, 1, size), SubSeq(buf, size + 1, Len(buf)))

\* the tail of FileSyncConnection.Read: size = header[-1], then
\* _ReadBuffered(size)
ReadData(buf, hdr) ==
    LET size == hdr.ints[Len(hdr.ints)]
    IN IF Len(buf) < size
       THEN Waits(buf, hdr)
       ELSE Returns(hdr.id, SubSeq(hdr.ints, 1, Len(hdr.ints) - 1),
                    SubSeq(buf, 1, size), SubSeq(buf, size + 1, Len(buf)))

\* FileSyncConnection.Read after its flush, on the bytes received so far:
\* _ReadBuffered(recv_header_len), the checks of the id, and the data.  hdr
\* is the header a Read blocked on its data has already taken.
FileSyncRead(buf, hdr, fmt, expected_ids, read_data) ==
    IF hdr # NoHdr THEN ReadData(buf, hdr)
    ELSE IF Len(buf) < 4 * fmt THEN Waits(buf, NoHdr)
    ELSE LET header == StructUnpack(fmt, SubSeq(buf, 1, 4 * fmt))
             rest == SubSeq(buf, 4 * fmt + 1, Len(buf))
         IN IF header.id = "KeyError" THEN Raises("KeyError", rest)
            ELSE IF header.id \notin expected_ids
            THEN IF header.id = "FAIL"
                 THEN Raises("AdbCommandFailureException", rest)
                 ELSE Raises("InvalidResponseError", rest)
            ELSE IF ~read_data THEN Returns(header.id, header.ints, <<>>, rest)
            ELSE ReadData(rest, header)

\* where an operation stands once its reads went as far as the bytes
\* received allow
Standing(at, r, sink, res) ==
    [pc |-> at, buf |-> r.buf, hdr |-> r.hdr, sink |-> sink, res |-> res]

\* an error that carries a value
Failed(err, val) == [st |-> "err", err |-> err, val |-> val]

\* the end of Push: for ... in cnxn.ReadUntil((), b'OKAY', b'FAIL')
PushReply(buf, hdr) ==
    LET r == FileSyncRead(buf, hdr, 2, {"OKAY", "FAIL"}, TRUE)
    IN CASE r.how = "wait" -> Standing("reply", r, <<>>, Running)
         [] r.how = "raise" -> Standing("idle", r, <<>>, Raise(r.err))
         [] r.how = "ret" /\ r.id = "OKAY" -> Standing("idle", r, <<>>, Ok(<<>>))
         [] r.how = "ret" /\ r.id # "OKAY" ->
                Standing("idle", r, <<>>, Failed("PushFailedError", r.data))

\* the end of Stat: cnxn.Read((b'STAT',), read_data=False)
StatReply(buf, hdr) ==
    LET r == FileSyncRead(buf, hdr, 4, {"STAT"}, FALSE)
    IN CASE r.how = "wait" -> Standing("reply", r, <<>>, Running)
         [] r.how = "raise" -> Standing("idle", r, <<>>, Raise(r.err))
         [] r.how = "ret" /\ r.id # "STAT" ->
                Standing("idle", r, <<>>, Raise("InvalidResponseError"))
         [] r.how = "ret" /\ r.id = "STAT" -> Standing("idle", r, <<>>, Ok(r.header))

\* the loop of Pull keeping only the payload of the last DATA
RECURSIVE PullLoop_KeepsLast(_, _, _)
PullLoop_KeepsLast(buf, hdr, sink) ==
    LET r == FileSyncRead(buf, hdr, 2, {"DATA", "DONE"}, TRUE)
    IN CASE r.how = "wait" -> Standing("reply", r, sink, Running)
         [] r.how = "raise" -> Standing("idle", r, sink, Raise(r.err))
         [] r.how = "ret" /\ r.id = "DONE" -> Standing("idle", r, sink, Ok(sink))
         [] r.how = "ret" /\ r.id # "DONE" -> PullLoop_KeepsLast(r.buf, NoHdr, r.data)

\* the loop of Pull: for ... in cnxn.ReadUntil((b'DATA',), b'DONE')
RECURSIVE PullLoop(_, _, _)
PullLoop(buf, hdr, sink) ==
    LET r == FileSyncRead(buf, hdr, 2, {"DATA", "DONE"}, TRUE)
    IN CASE r.how = "wait" -> Standing("reply", r, sink, Running)
         [] r.how = "raise" -> Standing("idle", r, sink, Raise(r.err))
         [] r.how = "ret" /\ r.id = "DONE" -> Standing("idle", r, sink, Ok(sink))
         [] r.how = "ret" /\ r.id # "DONE" -> PullLoop(r.buf, NoHdr, sink \o r.data)

\* collections.namedtuple('DeviceFile', ...)
DeviceFile(filename, mode, size, mtime) ==
    [filename |-> filename, mode |-> mode, size |-> size, mtime |-> mtime]

\* the loop of List: for ... in cnxn.ReadUntil((b'DENT',), b'DONE')
RECURSIVE ListLoop(_, _, _)
ListLoop(buf, hdr, files) ==
    LET r == FileSyncRead(buf, hdr, 5, {"DENT", "DONE"}, TRUE)
    IN CASE r.how = "wait" -> Standing("reply", r, files, Running)
         [] r.how = "raise" -> Standing("idle", r, files, Raise(r.err))
         [] r.how = "ret" /\ r.id = "DONE" -> Standing("idle", r, files, Ok(files))
         [] r.how = "ret" /\ r.id # "DONE" ->
                ListLoop(r.buf, NoHdr,
                         Append(files, DeviceFile(r.data, r.header[1], r.header[2],
                                                  r.header[3])))

\* a Read the caller makes itself, on a b'<2I' connection
CallReply(buf, hdr, expected_ids) ==
    LET r == FileSyncRead(buf, hdr, 2, expected_ids, TRUE)
    IN CASE r.how = "wait" -> Standing("reply", r, <<>>, Running)
         [] r.how = "raise" -> Standing("idle", r, <<>>, Raise(r.err))
         [] r.how = "ret" -> Standing("idle", r, <<>>, Ok(r.data))

\* the operation j goes on with these bytes received
Resume(j, buf) ==
    CASE j.kind = "push" -> PushReply(buf, j.hdr)
      [] j.kind = "stat" -> StatReply(buf, j.hdr)
      [] j.kind = "pull" -> PullLoop(buf, j.hdr, j.sink)
      [] j.kind = "list" -> ListLoop(buf, j.hdr, j.sink)
      [] j.kind = "read" -> CallReply(buf, j.hdr, j.expected)

\* datafile.read(MAX_PUSH_DATA): the chunk, and the file after it
FileRead(datafile, size) ==
    LET n == IF datafile.left < size THEN datafile.left ELSE size
    IN [data |-> Data(datafile.text, n, datafile.w,
                      What("src", datafile.size - datafile.left, n)),
        file |-> [datafile EXCEPT !.left = datafile.left - n]]

\* what the callers send and push
FileNames == {Data(TRUE, n, 1, What("name", n, 0)) : n \in {5, 4075, 4090}}
SourceSizes == {0, 17, 2048, 2049, 4100}
DataFiles ==
    {[text |-> FALSE, w |-> 1, size |-> z, left |-> z] : z \in SourceSizes}
    \cup {[text |-> TRUE, w |-> w, size |-> z, left |-> z] :
            w \in {1, 2}, z \in SourceSizes}
Mtimes == {0, 100}
Clock == {1500000000, 1500000001}
SendIds == {"STAT", "DATA"}
SendData ==
    {Data(FALSE, n, 1, What("raw", n, 0)) : n \in {5, 4088, 4090}}

\* a filesync packet of the device: its tag, the integers of its header and
\* its data.  Every byte the device sends is below 128, so that a word the
\* host reads across two packets stays below 2^31.
DevPacket(id, ints, data) == [id |-> id, ints |-> ints, data |-> data]

\* the bytes of a tag of the device; LIS2 is a tag FileSyncConnection.ids
\* does not know
DevTag(id) == IF id \in FileSyncIds THEN MakeWireIDs(id) ELSE <<76, 73, 83, 50>>

RECURSIVE PackInts(_)
PackInts(ints) == IF ints = <<>> THEN <<>> ELSE LE4(Head(ints)) \o PackInts(Tail(ints))

\* the packet as the device writes it
Serialize(p) == DevTag(p.id) \o PackInts(p.ints) \o p.data

\* packets with a <tag, size> header
DevPackets2 ==
    {DevPacket("OKAY", <<0>>, <<>>), DevPacket("FAIL", <<2>>, <<110, 111>>),
     DevPacket("DATA", <<1>>, <<7>>), DevPacket("DATA", <<2>>, <<8, 9>>),
     DevPacket("DONE", <<0>>, <<>>), DevPacket("LIS2", <<0>>, <<>>)}

\* the answers to STAT: <tag, mode, size, mtime>
DevPackets4 ==
    {DevPacket("STAT", <<292, 17, 100>>, <<>>), DevPacket("STAT", <<0, 0, 0>>, <<>>),
     DevPacket("FAIL", <<10>>, <<110, 111, 32, 115, 117, 99, 104, 32, 102, 46>>),
     DevPacket("DATA", <<1>>, <<7>>)}

\* the answers to LIST: <tag, mode, size, mtime, name_len> and the name
DevPackets5 ==
    {DevPacket("DENT", <<292, 17, 100, 1>>, <<97>>),
     DevPacket("DENT", <<365, 0, 50, 2>>, <<98, 99>>),
     DevPacket("DONE", <<0, 0, 0, 0>>, <<>>),
     DevPacket("FAIL", <<2>>, <<110, 111>>)}

\* the operations whose answers the model explores in full: those on a short
\* name, of a small binary file when they push
Short(j) ==
    /\ j.kind # "read"
    /\ j.filename.n = 5
    /\ j.kind = "push" => (~j.datafile.text /\ j.datafile.size = 17 /\ j.mtime = 100)

\* what the device may answer to the operation j
DevPacketsFor(j) ==
    CASE j.kind = "stat" ->
             IF Short(j) THEN DevPackets4 ELSE {p \in DevPackets4 : p.ints[1] = 292}
      [] j.kind = "list" ->
             IF Short(j) THEN DevPackets5 ELSE {p \in DevPackets5 : p.id = "DONE"}
      [] j.kind = "pull" ->
             IF Short(j) THEN DevPackets2 \ {DevPacket("OKAY", <<0>>, <<>>)}
             ELSE {p \in DevPackets2 : p.id = "DONE"}
      [] j.kind = "push" ->
             IF Short(j) THEN {p \in DevPackets2 : p.id \notin {"DONE"} /\ p.ints # <<1>>}
             ELSE {p \in DevPackets2 : p.id \in {"OKAY", "FAIL"}}
      [] OTHER -> {p \in DevPackets2 : p.id \in {"OKAY", "FAIL", "DATA"} /\ p.ints # <<2>> }

\* device packets one operation sees, and WRTE messages it receives
MaxPackets == 3
MaxWrtes == 4

\* the lengths of the WRTE payload the device may cut off its bytes: 3 (a
\* part of a header), 8 (a header of two words) or all of them
Cuts(j, bytes) ==
    IF Short(j) THEN {k \in {3, 8, Len(bytes)} : 0 < k /\ k <= Len(bytes)}
    ELSE {Len(bytes)} \ {0}

TheSender == Sender(send_buffer, send_idx, written)

\* the packets of the payloads written, in order
RECURSIVE Packets(_)
Packets(out) ==
    IF out = <<>> THEN <<>> ELSE out[1].packets \o Packets(Tail(out))

Sending(fs) ==
    /\ send_buffer' = fs.buf
    /\ send_idx' = fs.idx
    /\ written' = fs.out

StreamIdle == UNCHANGED <<pc, op, cur, conn, closed, stray, last, trace, result,
                          nreads, meth, svc, cres, estab, rsa_keys, nsigned,
                          fbvars, usbvars, built, rd>>

\* the operation j stands as o says, n more WRTE messages received
Stand(j, o, n) ==
    /\ fpc' = o.pc
    /\ recv_buffer' = o.buf
    /\ job' = [j EXCEPT !.hdr = o.hdr, !.sink = o.sink, !.rx = j.rx + n]
    /\ fres' = o.res

\* a new stream: the device has sent nothing on it
NewStream == dwire' = <<>> /\ dpk' = <<>>

\* a caller builds a FileSyncConnection
FileSyncConnection ==
    /\ fpc = "idle"
    /\ Sending(Sender(<<>>, 0, <<>>))
    /\ recv_buffer' = <<>>
    /\ job' = NoJob
    /\ fres' = Ok(<<>>)
    /\ NewStream
    /\ UNCHANGED fpc
    /\ StreamIdle

\* a caller calls cnxn.Send(command_id, data)
CallSend(command_id, data) ==
    /\ fpc = "idle"
    /\ job.kind \in {"none", "read"}
    /\ Len(Packets(written)) + Len(send_buffer) < MaxSends
    /\ Sending(Send(TheSender, command_id, data, 0))
    /\ job' = NoJob
    /\ UNCHANGED <<fpc, fres, recv_buffer, dwire, dpk>>
    /\ StreamIdle

\* a caller calls cnxn.Read(expected_ids), nothing being left of earlier
\* answers: up to the return, or to the read it blocks in
CallRead(expected_ids) ==
    /\ fpc = "idle"
    /\ job.kind \in {"none", "read"}
    /\ recv_buffer = <<>> /\ dwire = <<>>
    /\ Sending(ReadFlush(TheSender))
    /\ LET j == [NoJob EXCEPT !.kind = "read", !.expected = expected_ids]
       IN Stand(j, Resume(j, recv_buffer), 0)
    /\ dpk' = <<>>
    /\ UNCHANGED dwire
    /\ StreamIdle

\* FilesyncProtocol.Push(connection, datafile, filename, st_mode, mtime), on
\* a stream no other FileSyncConnection is using: up to the first read of
\* datafile
Push(datafile, filename, st_mode, mtime) ==
    /\ fpc = "idle"
    /\ job.kind = "none" /\ send_buffer = <<>> /\ written = <<>>
    /\ Sending(Send(Sender(<<>>, 0, <<>>), "SEND", FileInfo(filename, st_mode), 0))
    /\ job' = [NoJob EXCEPT !.kind = "push", !.filename = filename,
                            !.st_mode = st_mode, !.mtime = mtime,
                            !.datafile = datafile, !.expected = {"OKAY", "FAIL"}]
    /\ fpc' = "push"
    /\ fres' = Running
    /\ recv_buffer' = <<>>
    /\ NewStream
    /\ StreamIdle

\* one pass of the loop of Push over a chunk that is not empty
PushData ==
    /\ fpc = "push"
    /\ LET r == FileRead(job.datafile, MAX_PUSH_DATA)
       IN /\ r.data.n > 0
          /\ Sending(Send(TheSender, "DATA", r.data, 0))
          /\ job' = [job EXCEPT !.datafile = r.file, !.reads = job.reads + 1]
    /\ UNCHANGED <<fpc, fres, recv_buffer, dwire, dpk>>
    /\ StreamIdle

\* the end of the loop of Push: DONE, and ReadUntil up to the read it blocks
\* in
PushDone ==
    /\ fpc = "push"
    /\ FileRead(job.datafile, MAX_PUSH_DATA).data.n = 0
    /\ \E now \in Clock :
         LET mtime == IF job.mtime = 0 THEN now ELSE job.mtime
         IN Sending(ReadFlush(Send(TheSender, "DONE", NoData, mtime)))
    /\ Stand(job, Resume(job, recv_buffer), 0)
    /\ UNCHANGED <<dwire, dpk>>
    /\ StreamIdle

\* an operation that sends one request and reads the answer: up to the read
\* it blocks in
Request(kind, command_id, filename, expected_ids) ==
    /\ fpc = "idle"
    /\ job.kind = "none" /\ send_buffer = <<>> /\ written = <<>>
    /\ Sending(ReadFlush(Send(Sender(<<>>, 0, <<>>), command_id, filename, 0)))
    /\ LET j == [NoJob EXCEPT !.kind = kind, !.filename = filename,
                              !.expected = expected_ids]
       IN Stand(j, Resume(j, <<>>), 0)
    /\ NewStream
    /\ StreamIdle

\* FilesyncProtocol.Stat(connection, filename)
Stat(filename) == Request("stat", "STAT", filename, {"STAT"})

\* FilesyncProtocol.List(connection, path)
List(path) == Request("list", "LIST", path, {"DENT", "DONE"})

\* FilesyncProtocol.Pull(connection, filename, dest_file, None)
Pull(filename) == Request("pull", "RECV", filename, {"DATA", "DONE"})

\* the device produces a packet for the operation that waits
DeviceWrites(p) ==
    /\ fpc = "reply"
    /\ p \in DevPacketsFor(job)
    /\ Len(dpk) < (IF Short(job) THEN MaxPackets ELSE 1)
    /\ dwire' = dwire \o Serialize(p)
    /\ dpk' = Append(dpk, p)
    /\ UNCHANGED <<fpc, send_buffer, send_idx, written, job, fres, recv_buffer>>
    /\ StreamIdle

\* adb.ReadUntil(b'WRTE') in _ReadBuffered returns the first bytes of the
\* device, cut of them or all if cut is 0, and the operation goes on; the connection of a Push, Stat, List
\* or Pull ends with the operation
Deliver(cut) ==
    /\ fpc = "reply"
    /\ cut \in Cuts(job, dwire) \/ (cut = 0 /\ dwire # <<>>)
    /\ job.rx < MaxWrtes
    /\ LET k == IF cut = 0 THEN Len(dwire) ELSE cut
           o == Resume(job, recv_buffer \o SubSeq(dwire, 1, k))
       IN /\ Stand(job, o, 1)
          /\ IF o.pc = "idle" /\ job.kind # "read"
             THEN Sending(Sender(<<>>, 0, <<>>))
             ELSE UNCHANGED <<send_buffer, send_idx, written>>
          /\ dwire' = SubSeq(dwire, k + 1, Len(dwire))
    /\ UNCHANGED dpk
    /\ StreamIdle

\* adb.ReadUntil(b'WRTE') in _ReadBuffered raises: no message in time
StreamFails ==
    /\ fpc = "reply"
    /\ fpc' = "idle"
    /\ fres' = Raise("ReadFailedError")
    /\ IF job.kind # "read"
       THEN Sending(Sender(<<>>, 0, <<>>))
       ELSE UNCHANGED <<send_buffer, send_idx, written>>
    /\ UNCHANGED <<job, recv_buffer, dwire, dpk>>
    /\ StreamIdle

NextSync ==
    \/ FileSyncConnection
    \/ \E c \in SendIds, d \in SendData : CallSend(c, d)
    \/ \E e \in {{"STAT"}, {"OKAY", "FAIL"}} : CallRead(e)
    \/ \E f \in DataFiles, n \in FileNames, t \in Mtimes :
         Push(f, n, DEFAULT_PUSH_MODE, t)
    \/ PushData
    \/ PushDone
    \/ \E n \in FileNames : Stat(n)
    \/ \E n \in FileNames : List(n)
    \/ \E n \in FileNames : Pull(n)
    \/ \E p \in DevPackets2 \cup DevPackets4 \cup DevPackets5 : DeviceWrites(p)
    \/ \E cut \in {0, 3, 8} : Deliver(cut)
    \/ StreamFails

SpecSync == Init /\ [][NextSync]_vars

-----------------------------------------------------------------------------
(* Fastboot: FastbootProtocol and FastbootCommands *)

\* FastbootProtocol.FINAL_HEADERS
FINAL_HEADERS == {"OKAY", "DATA"}

\* responses one command reads, and the empty writes of a _Write that never
\* ends that the model follows
MaxResponses == 4

\* b'%08x' % n: eight hexadecimal digits, the highest first
RECURSIVE Pow16(_)
Pow16(i) == IF i = 0 THEN 1 ELSE 16 * Pow16(i - 1)
Hex8(n) == [i \in 1..8 |-> (n \div Pow16(8 - i)) % 16]

\* binascii.unhexlify(s): the bytes, or binascii.Error for an odd length or
\* a character that is no digit (16 in the model)
Unhexlify(s) ==
    IF Len(s) % 2 # 0 \/ \E i \in 1..Len(s) : s[i] > 15
    THEN [err |-> "binascii.Error", bytes |-> <<>>]
    ELSE [err |-> "", bytes |-> [i \in 1..(Len(s) \div 2) |-> 16 * s[2 * i - 1] + s[2 * i]]]

\* struct.unpack(b'>I', b): struct.error unless b has four bytes
StructUnpackBE(b) ==
    IF Len(b) # 4 THEN [err |-> "struct.error", val |-> 0]
    ELSE [err |-> "", val |-> 16777216 * b[1] + 65536 * b[2] + 256 * b[3] + b[4]]

\* accepted_size[:8]
First8(s) == SubSeq(s, 1, IF Len(s) < 8 THEN Len(s) ELSE 8)

\* the size HandleDataSending reads in the DATA response
AcceptedSize(remaining) ==
    LET u == Unhexlify(First8(remaining))
    IN IF u.err # "" THEN [err |-> u.err, val |-> 0] ELSE StructUnpackBE(u.bytes)

\* a response of the device: 64 bytes at most, a header of 4 and the rest
Response(header, remaining) == [header |-> header, remaining |-> remaining]

\* a call of a callback, and whether it raised
InfoCall(r, raised) ==
    [cb |-> "info", header |-> r.header, remaining |-> r.remaining, a |-> 0, b |-> 0,
     raised |-> raised]
ProgressCall(current, total, raised) ==
    [cb |-> "progress", header |-> "", remaining |-> <<>>, a |-> current, b |-> total,
     raised |-> raised]

\* a bulk write of the host: a command, or what one read of the source
\* returned: n items from offset off, bytes of a binary source and
\* characters of a text source, and the bytes they are on the transport
CmdWrite(command, arg) ==
    [kind |-> "cmd", command |-> command, arg |-> arg, off |-> 0, n |-> 0, bytes |-> 0]
DataWrite(off, n, bytes) ==
    [kind |-> "data", command |-> "", arg |-> <<>>, off |-> off, n |-> n, bytes |-> bytes]

\* one pass of the loop of FastbootProtocol._AcceptResponses over a response
\* read: the loop goes on, returns remaining, or raises.  An info_cb that
\* raises ends the loop with its exception.
AcceptResponses(expected_header, r, info_cb) ==
    LET call == <<InfoCall(r, info_cb = "raises")>>
        thrown == [how |-> "raise", err |-> "CallbackError", val |-> <<>>, cbs |-> call]
    IN IF r.header = "INFO"
       THEN IF info_cb = "raises" THEN thrown
            ELSE [how |-> "more", err |-> "", val |-> <<>>, cbs |-> call]
       ELSE IF r.header \in FINAL_HEADERS
       THEN IF r.header # expected_header
            THEN [how |-> "raise", err |-> "FastbootStateMismatch", val |-> <<>>, cbs |-> <<>>]
            ELSE IF r.header = "OKAY"
            THEN IF info_cb = "raises" THEN thrown
                 ELSE [how |-> "ret", err |-> "", val |-> r.remaining, cbs |-> call]
            ELSE [how |-> "ret", err |-> "", val |-> r.remaining, cbs |-> <<>>]
       ELSE IF r.header = "FAIL"
       THEN IF info_cb = "raises" THEN thrown
            ELSE [how |-> "raise", err |-> "FastbootRemoteFailure", val |-> r.remaining,
                  cbs |-> call]
       ELSE [how |-> "raise", err |-> "FastbootInvalidResponse", val |-> <<>>, cbs |-> <<>>]

\* FastbootProtocol._Write(data, length, progress_callback) with left items
\* in data, the first wide of them characters of two bytes: its bulk writes
\* and the calls of progress_callback, current being the sum _HandleProgress
\* holds.  data.read and len count characters when data is a text file.  A
\* source that ends before length reaches 0 leaves the loop writing empty
\* chunks for ever: hung, after fuel of them.
RECURSIVE FbWrite(_, _, _, _, _, _, _, _)
FbWrite(current, left, length, chunk, total, wide, progress_callback, fuel) ==
    IF length = 0 THEN [writes |-> <<>>, cbs |-> <<>>, hung |-> FALSE]
    ELSE LET n == IF left < chunk THEN left ELSE chunk
             w2 == IF wide < n THEN wide ELSE n
             call == IF progress_callback = "none" THEN <<>>
                     ELSE <<ProgressCall(current + n, total, progress_callback = "raises")>>
         IN IF n = 0 /\ fuel = 0 THEN [writes |-> <<>>, cbs |-> <<>>, hung |-> TRUE]
            ELSE LET w == FbWrite(current + n, left - n, length - n, chunk, total,
                                  wide - w2, progress_callback,
                                  IF n = 0 THEN fuel - 1 ELSE fuel)
                 IN [writes |-> <<DataWrite(current, n, n + w2)>> \o w.writes,
                     cbs |-> call \o w.cbs, hung |-> w.hung]

\* the commands of FastbootCommands built on _SimpleCommand, as they write
\* command and arg
SimpleCommands ==
    {"flash", "erase", "getvar", "oem", "continue", "reboot", "reboot-bootloader"}
HasArg(name) == name \in {"flash", "erase", "getvar"}

\* the methods with an info_cb argument; the others leave the default
\* callback, which logs
TakesInfoCb(name) == name \in {"flash", "getvar", "oem"}

\* whether the method returns what _SimpleCommand returns: Erase does not
ReturnsResponse(name) == name # "erase"

Chunks == {4, 1024}
SourceLens == {24, 8192, 9774}
\* the responses of the device: the rest of a DATA is the size in eight
\* digits, or four digits only, or eight with one that is no digit
FbResponses ==
    {Response(h, <<1>>) : h \in {"INFO", "OKAY", "FAIL", "BLEH"}}
    \cup {Response("OKAY", <<2>>)}
    \cup {Response("DATA", Hex8(n)) : n \in SourceLens}
    \cup {Response("DATA", <<0, 0, 2, 4>>), Response("DATA", <<0, 0, 16, 0, 0, 0, 2, 4>>)}
Callbacks == {"ok", "raises"}

FbJob(name, phase, arg, N, size, wide, chunk_kb, info_cb, progress_callback, got) ==
    [name |-> name, phase |-> phase, arg |-> arg, N |-> N, size |-> size,
     wide |-> wide, chunk_kb |-> chunk_kb, info_cb |-> info_cb,
     progress_callback |-> progress_callback, got |-> got]

FsIdle == UNCHANGED <<pc, op, cur, conn, closed, stray, last, trace, result,
                      nreads, meth, svc, cres, estab, rsa_keys, nsigned, fsvars,
                      usbvars, built, rd>>

\* FastbootCommands._SimpleCommand(command, arg, info_cb): SendCommand, up
\* to the first read of HandleSimpleResponses
SimpleCommand(name, arg, info_cb) ==
    /\ fbpc = "idle"
    /\ fbjob' = FbJob(name, "simple", arg, 0, 0, 0, 1024, info_cb, "none", <<>>)
    /\ usbout' = <<CmdWrite(name, arg)>>
    /\ usbin' = <<>>
    /\ cbs' = <<>>
    /\ fbres' = Running
    /\ fbpc' = "resp"
    /\ FsIdle

\* FastbootCommands.Download(source_file, source_len, info_cb,
\* progress_callback) and FlashFromFile(partition, ...): the download
\* command, up to the first read of HandleDataSending.  The source holds
\* size bytes; wide of its characters have two bytes when it is read as
\* text, as open(source_file) reads the file of FlashFromFile and as a
\* StringIO is read, and wide is 0 when it is read as bytes.
Download(name, partition, N, size, wide, chunk_kb, info_cb, progress_callback) ==
    /\ fbpc = "idle"
    /\ fbjob' = FbJob(name, "data", partition, N, size, wide, chunk_kb, info_cb,
                      progress_callback, <<>>)
    /\ usbout' = <<CmdWrite("download", Hex8(N))>>
    /\ usbin' = <<>>
    /\ cbs' = <<>>
    /\ fbres' = Running
    /\ fbpc' = "resp"
    /\ FsIdle

TransferError_Never(accepted_size, source_len) == FALSE

\* HandleDataSending: if accepted_size != source_len, FastbootTransferError
TransferError(accepted_size, source_len) == accepted_size # source_len

\* the header _AcceptResponses waits for in each phase of a command
ExpectedHeader(phase) == IF phase = "data" THEN "DATA" ELSE "OKAY"

FlashFromFileResult_FlashFirst(download_response, flash_response) ==
    flash_response \o download_response

\* FlashFromFile: return download_response + flash_response
FlashFromFileResult(download_response, flash_response) ==
    download_response \o flash_response

\* what a command does when its _AcceptResponses returns val
Returned(j, val) ==
    CASE j.phase = "simple" ->
             [pc |-> "idle", phase |-> j.phase, writes |-> <<>>, cbs |-> <<>>,
              got |-> <<>>,
              res |-> IF ReturnsResponse(j.name) THEN Ok(val) ELSE Ok(None)]
      [] j.phase = "data" ->
             LET accepted_size == AcceptedSize(val)
                 w == FbWrite(0, j.size - j.wide, accepted_size.val, j.chunk_kb * 1024,
                              accepted_size.val, j.wide, j.progress_callback, 1)
             IN IF accepted_size.err # ""
                THEN [pc |-> "idle", phase |-> j.phase, writes |-> <<>>, cbs |-> <<>>,
                      got |-> <<>>, res |-> Raise(accepted_size.err)]
                ELSE IF TransferError(accepted_size.val, j.N)
                THEN [pc |-> "idle", phase |-> j.phase, writes |-> <<>>, cbs |-> <<>>,
                      got |-> <<>>, res |-> Raise("FastbootTransferError")]
                ELSE [pc |-> IF w.hung THEN "hung" ELSE "resp", phase |-> "final",
                      writes |-> w.writes, cbs |-> w.cbs, got |-> <<>>, res |-> Running]
      [] j.phase = "final" /\ j.name = "download" ->
             [pc |-> "idle", phase |-> j.phase, writes |-> <<>>, cbs |-> <<>>,
              got |-> <<>>, res |-> Ok(val)]
      [] j.phase = "final" /\ j.name # "download" ->
             [pc |-> "resp", phase |-> "flash", writes |-> <<CmdWrite("flash", j.arg)>>,
              cbs |-> <<>>, got |-> val, res |-> Running]
      [] j.phase = "flash" ->
             [pc |-> "idle", phase |-> j.phase, writes |-> <<>>, cbs |-> <<>>,
              got |-> j.got, res |-> Ok(FlashFromFileResult(j.got, val))]

\* usb.BulkRead(64) in _AcceptResponses returns r: the pass of the loop, and
\* what follows its return up to the next read
FbResponse(r) ==
    /\ fbpc = "resp"
    /\ Len(usbin) < MaxResponses
    /\ usbin' = Append(usbin, r)
    /\ LET a == AcceptResponses(ExpectedHeader(fbjob.phase), r, fbjob.info_cb)
           o == Returned(fbjob, a.val)
       IN CASE a.how = "more" ->
                   /\ cbs' = cbs \o a.cbs
                   /\ UNCHANGED <<fbpc, fbjob, usbout, fbres>>
            [] a.how = "raise" ->
                   /\ cbs' = cbs \o a.cbs
                   /\ fbpc' = "idle"
                   /\ fbres' = Failed(a.err, a.val)
                   /\ UNCHANGED <<fbjob, usbout>>
            [] a.how = "ret" ->
                   /\ cbs' = (cbs \o a.cbs) \o o.cbs
                   /\ fbpc' = o.pc
                   /\ fbres' = o.res
                   /\ fbjob' = [fbjob EXCEPT !.phase = o.phase, !.got = o.got]
                   /\ usbout' = usbout \o o.writes
    /\ FsIdle

\* usb.BulkRead(64) in _AcceptResponses raises: no response in time
FbReadFails ==
    /\ fbpc = "resp"
    /\ fbpc' = "idle"
    /\ fbres' = Raise("ReadFailedError")
    /\ UNCHANGED <<fbjob, usbout, usbin, cbs>>
    /\ FsIdle

NextFastboot ==
    \/ \E c \in SimpleCommands, i \in Callbacks :
         /\ i = "raises" => TakesInfoCb(c)
         /\ SimpleCommand(c, IF HasArg(c) THEN <<7>> ELSE <<>>, i)
    \/ \E nm \in {"download", "flashfromfile"}, N \in SourceLens, d \in {0 - 2, 0, 2},
          w \in {0, 1}, k \in Chunks, i \in Callbacks, g \in Callbacks \cup {"none"} :
         /\ nm = "flashfromfile" => d = 0
         /\ (d # 0 \/ w # 0) => N = 24 /\ k = 4
         /\ w # 0 => d = 0
         /\ g = "none" => i = "ok"
         /\ Download(nm, <<7>>, N, N + d, w, k, i, g)
    \/ \E r \in FbResponses : FbResponse(r)
    \/ FbReadFails

SpecFastboot == Init /\ [][NextFastboot]_vars

-----------------------------------------------------------------------------
(* UsbHandle: Open, Close, BulkRead and BulkWrite on one port path *)

\* calls of Open the model follows
MaxOpens == 3

\* the layers above the USB handle stand still
UsbOnly == UNCHANGED <<pc, op, cur, conn, closed, stray, last, trace, result, nreads,
                       meth, svc, cres, estab, rsa_keys, nsigned, fsvars, fbvars,
                       built, rd>>

\* the end of UsbHandle.Close for a handle that is open: releaseInterface
\* and close, and in the finally self._handle = None
CloseHandle_Keeps(h) == handle

CloseHandle(h) == [handle EXCEPT ![h] = 0]

\* UsbHandle.Close() on h; released is FALSE when releaseInterface raises
\* USBError, which leaves the device handle of libusb unclosed, its
\* interface claimed
UsbClose(h, released) ==
    IF handle[h] = 0
    THEN UNCHANGED <<handle, claimed>>
    ELSE /\ handle' = CloseHandle(h)
         /\ claimed' = IF released /\ claimed = handle[h] THEN 0 ELSE claimed

\* the first part of UsbHandle.Open() on h by thread t, under
\* _HANDLE_CACHE_LOCK: the handle in the cache is closed
OpenBegin(t, h, released) ==
    /\ tpc[t].op = "none"
    /\ opens < MaxOpens
    /\ opens' = opens + 1
    /\ tpc' = [tpc EXCEPT ![t] = [op |-> "Open", h |-> h, lib |-> opens + 1]]
    /\ IF HANDLE_CACHE # "" THEN UsbClose(HANDLE_CACHE, released)
       ELSE /\ released
            /\ UNCHANGED <<handle, claimed>>
    /\ LET out == HANDLE_CACHE # "" /\ HANDLE_CACHE # h /\ handle[HANDLE_CACHE] # 0
       IN /\ displaced' = IF out THEN displaced \cup {HANDLE_CACHE} ELSE displaced
          /\ evicted' = IF out THEN evicted \cup {HANDLE_CACHE} ELSE evicted
          /\ bulk' = IF out THEN [bulk EXCEPT ![HANDLE_CACHE] = "none"] ELSE bulk
    /\ UNCHANGED HANDLE_CACHE
    /\ UsbOnly

\* the middle of Open: self._device.open() and handle.claimInterface, which
\* raises USBError when another device handle has the interface, then
\* self._handle = handle
OpenDevice(t) ==
    /\ tpc[t].op = "Open"
    /\ IF claimed # 0
       THEN /\ tpc' = [tpc EXCEPT ![t] = NoCall]
            /\ UNCHANGED <<handle, claimed, evicted>>
       ELSE /\ claimed' = tpc[t].lib
            /\ handle' = [handle EXCEPT ![tpc[t].h] = tpc[t].lib]
            /\ evicted' = evicted \ {tpc[t].h}
            /\ tpc' = [tpc EXCEPT ![t].op = "Opened"]
    /\ UNCHANGED <<HANDLE_CACHE, opens, displaced, bulk>>
    /\ UsbOnly

\* the end of Open, under _HANDLE_CACHE_LOCK: _HANDLE_CACHE[port_path] = self
OpenEnd(t) ==
    /\ tpc[t].op = "Opened"
    /\ HANDLE_CACHE' = tpc[t].h
    /\ tpc' = [tpc EXCEPT ![t] = NoCall]
    /\ UNCHANGED <<handle, claimed, opens, displaced, evicted, bulk>>
    /\ UsbOnly

\* UsbHandle.Close() on h by thread t
HandleClose(t, h, released) ==
    /\ tpc[t].op = "none"
    /\ handle[h] # 0
    /\ UsbClose(h, released)
    /\ UNCHANGED <<HANDLE_CACHE, opens, tpc, displaced, evicted, bulk>>
    /\ UsbOnly

\* BulkRead and BulkWrite on h: failed for a handle that is closed
\* (self._handle is None) and when the transfer of libusb raises USBError
BulkOutcome(h, failed, ok) == IF handle[h] = 0 \/ ~ok THEN failed ELSE "ok"

\* UsbHandle.BulkRead on h by thread t
BulkRead(t, h, ok) ==
    /\ tpc[t].op = "none"
    /\ bulk' = [bulk EXCEPT ![h] = BulkOutcome(h, "ReadFailedError", ok)]
    /\ UNCHANGED <<handle, HANDLE_CACHE, claimed, opens, tpc, displaced, evicted>>
    /\ UsbOnly

\* UsbHandle.BulkWrite on h by thread t
BulkWrite(t, h, ok) ==
    /\ tpc[t].op = "none"
    /\ bulk' = [bulk EXCEPT ![h] = BulkOutcome(h, "WriteFailedError", ok)]
    /\ UNCHANGED <<handle, HANDLE_CACHE, claimed, opens, tpc, displaced, evicted>>
    /\ UsbOnly

NextUsb ==
    \/ \E t \in Threads, h \in Handles, released \in BOOLEAN : OpenBegin(t, h, released)
    \/ \E t \in Threads : OpenDevice(t)
    \/ \E t \in Threads : OpenEnd(t)
    \/ \E t \in Threads, h \in Handles, released \in BOOLEAN : HandleClose(t, h, released)
    \/ \E t \in Threads, h \in Handles, ok \in BOOLEAN : BulkRead(t, h, ok)
    \/ \E t \in Threads, h \in Handles, ok \in BOOLEAN : BulkWrite(t, h, ok)

SpecUsb == Init /\ [][NextUsb]_vars

-----------------------------------------------------------------------------
(* The codec: AdbMessage.__init__ and Pack *)

\* AdbMessage.Pack: struct.pack(b'<6I', command, arg0, arg1, len(data),
\* checksum, magic), six little-endian words
Pack(m) ==
    MakeWireIDs(m.cmd) \o LE4(m.arg0) \o LE4(m.arg1) \o LE4(m.len) \o LE4(m.ck)
    \o m.magic

\* payloads of bytes, up to MAX_ADB_DATA of the highest byte
CodecLens == {0, 1, 2, MAX_ADB_DATA}
CodecPayloads ==
    {[i \in 1..n |-> 255] : n \in CodecLens}
    \cup {<<0>>, <<128>>, <<1, 2, 3>>, <<255, 1>>, [i \in 1..300 |-> i % 256],
          [i \in 1..MAX_ADB_DATA |-> i % 256]}

\* AdbMessage(command, arg0, arg1, data).Pack()
Build(command, arg0, arg1, data) ==
    /\ built' = [command |-> command, data |-> data,
                 header |-> Pack(AdbMessage(command, arg0, arg1, data))]
    /\ UNCHANGED <<pc, op, cur, conn, closed, stray, last, trace, result, nreads,
                   meth, svc, cres, estab, rsa_keys, nsigned, fsvars, fbvars, usbvars,
                   rd>>

NextCodec ==
    \E command \in ids, arg0 \in {0, 1}, arg1 \in {2}, data \in CodecPayloads :
      Build(command, arg0, arg1, data)

SpecCodec == Init /\ [][NextCodec]_vars

-----------------------------------------------------------------------------
(* AdbMessage.Read, byte by byte, over a transport whose reads are short *)

\* AdbMessage.Unpack: struct.unpack(b'<6I', message), which fails on a
\* message that is not 24 bytes long
UnpackBytes(message) ==
    IF Len(message) # HeaderLen
    THEN [err |-> "ValueError", cmd |-> <<>>, arg0 |-> 0, arg1 |-> 0,
          data_length |-> 0, data_checksum |-> 0]
    ELSE [err |-> "", cmd |-> Word(message, 1), arg0 |-> UnLE4(Word(message, 2)),
          arg1 |-> UnLE4(Word(message, 3)), data_length |-> UnLE4(Word(message, 4)),
          data_checksum |-> UnLE4(Word(message, 5))]

\* cls.constants.get(cmd)
Constants(cmd) ==
    IF \E c \in ids : MakeWireIDs(c) = cmd
    THEN CHOOSE c \in ids : MakeWireIDs(c) = cmd
    ELSE "none"

\* the commands the reader expects, and the messages of the device: one
\* whose command may be one the reader skips, with no payload then, and the
\* OKAY behind it
ExpectedCmds == {"OKAY", "CLSE", "WRTE"}
WirePayloads == {<<>>, <<7>>, <<7, 8, 9>>}
WireMsgs ==
    {AdbMessage(c, a0, a1, d) :
        c \in ExpectedCmds, a0 \in {1, 2}, a1 \in {0, 1}, d \in WirePayloads}
    \cup {AdbMessage("AUTH", a0, 0, <<>>) : a0 \in {1, 2}}
Behind == AdbMessage("OKAY", 2, 1, <<>>)

\* the bytes a BulkRead may return of those it is asked for: one, all but
\* one, or all
Fragments(length) == {n \in {1, length - 1, length} : n > 0}

AdbOnly == UNCHANGED <<pc, op, cur, conn, closed, stray, last, trace, result, nreads,
                       meth, svc, cres, estab, rsa_keys, nsigned, fsvars, fbvars,
                       usbvars, built>>

\* what Read returns: command, arg0, arg1, bytes(data)
Returned4(command, arg0, arg1, data) ==
    [cmd |-> command, arg0 |-> arg0, arg1 |-> arg1, data |-> data]

\* the device writes the message m, its payload and the message behind it,
\* and the host calls AdbMessage.Read(usb, ExpectedCmds)
DeviceSends(m) ==
    /\ rd.pc \in {"idle", "done", "raised"}
    /\ rd' = [NoRead EXCEPT !.pc = "header",
                            !.wire = Pack(m) \o m.data \o Pack(Behind),
                            !.sent = <<m, Behind>>]
    /\ AdbOnly

\* one pass of the header loop: usb.BulkRead(24) returns n bytes, which are
\* unpacked; a command that is not expected is skipped
ReadHeader(n) ==
    /\ rd.pc = "header"
    /\ n \in Fragments(HeaderLen) /\ n <= Len(rd.wire)
    /\ LET msg == SubSeq(rd.wire, 1, n)
           u == UnpackBytes(msg)
           command == Constants(u.cmd)
           r == [rd EXCEPT !.wire = SubSeq(rd.wire, n + 1, Len(rd.wire)),
                           !.asked = HeaderLen, !.missing = HeaderLen]
       IN rd' = CASE u.err # "" -> [r EXCEPT !.pc = "raised", !.err = u.err]
                  [] u.err = "" /\ command = "none" ->
                         [r EXCEPT !.pc = "raised", !.err = "InvalidCommandError"]
                  [] u.err = "" /\ command \in ids \ ExpectedCmds -> r
                  [] u.err = "" /\ command \in ExpectedCmds /\ u.data_length > 0 ->
                         [r EXCEPT !.pc = "payload", !.data_length = u.data_length,
                                   !.data_checksum = u.data_checksum,
                                   !.ret = <<Returned4(command, u.arg0, u.arg1, <<>>)>>]
                  [] OTHER ->
                         [r EXCEPT !.pc = "done",
                                   !.ret = <<Returned4(command, u.arg0, u.arg1, <<>>)>>]
    /\ AdbOnly

\* one pass of the payload loop: usb.BulkRead(data_length) returns n bytes;
\* after the last pass the checksum is compared
ReadPayload(n) ==
    /\ rd.pc = "payload"
    /\ n \in Fragments(rd.data_length) /\ n <= Len(rd.wire)
    /\ LET temp == SubSeq(rd.wire, 1, n)
           data == rd.data \o temp
           r == [rd EXCEPT !.wire = SubSeq(rd.wire, n + 1, Len(rd.wire)),
                           !.asked = rd.data_length,
                           !.missing = Len(rd.sent[1].data) - Len(rd.data),
                           !.data = data,
                           !.data_length = rd.data_length - n]
       IN rd' = IF r.data_length > 0 THEN r
                ELSE IF CalculateChecksum(data) # rd.data_checksum
                THEN [r EXCEPT !.pc = "raised", !.err = "InvalidChecksumError"]
                ELSE [r EXCEPT !.pc = "done",
                               !.ret = <<[rd.ret[1] EXCEPT !.data = data]>>]
    /\ AdbOnly

NextRead ==
    \/ \E m \in WireMsgs : DeviceSends(m)
    \/ \E n \in 1..HeaderLen : ReadHeader(n)
    \/ \E n \in 1..3 : ReadPayload(n)

SpecRead == Init /\ [][NextRead]_vars

-----------------------------------------------------------------------------
(* Properties of the stream operations, checked under Spec *)

\* the running stream's own messages
OkayMsg == AdbMessage("OKAY", cur[1].lid, cur[1].rid, <<>>)
ClseMsg == AdbMessage("CLSE", cur[1].lid, cur[1].rid, <<>>)

\* the header Read returned last carries a nonzero id that is not the stream's
LocalMismatch == last.arg1 # 0 /\ last.arg1 # cur[1].lid
RemoteMismatch == last.arg0 # 0 /\ last.arg0 # cur[1].rid
EndsWithRet == trace # <<>> /\ trace[Len(trace)].k = "rx" /\ trace[Len(trace)].how = "ret"

\* C1 (as claimed): every WRTE header the host reads on its stream, in any
\* operation, is answered by one OKAY(local_id, remote_id) right after it.
C1_EveryWrteAcked ==
    op \in StreamOps =>
        \A i \in DOMAIN trace :
            (trace[i].k = "rx" /\ trace[i].cmd = "WRTE" /\ trace[i].mine
                /\ trace[i].how # "raise" /\ cur[1].rid # 0)
            => (i < Len(trace) /\ trace[i + 1] = Tx(OkayMsg))

\* C2: Write sends exactly one message, the WRTE(local_id, remote_id, data),
\* and returns len(data) only once Read has returned an OKAY whose nonzero
\* ids are the stream's; that OKAY is the only message its ReadUntil saw.
C2_WriteAcked ==
    op = "Write" =>
        /\ Len(Sent) = 1
        /\ trace[1].k = "tx" /\ trace[1].cmd = "WRTE"
        /\ trace[1].m = AdbMessage("WRTE", cur[1].lid, cur[1].rid, trace[1].m.data)
        /\ Len(Rets) <= 1
        /\ result.st = "ok" =>
              /\ result.val = <<Len(trace[1].m.data)>>
              /\ Cmds(Rets) = <<"OKAY">>
              /\ EndsWithRet
              /\ ~LocalMismatch /\ ~RemoteMismatch

C2_Witness ==
    /\ op = "Write" /\ result.st = "ok"
    /\ last.arg0 = cur[1].rid /\ last.arg0 # 0 /\ last.arg1 = cur[1].lid
    /\ trace[1].m.data # <<>>
    /\ Len(trace) > 2

C5_CloseIdempotent == (pc = "close" /\ closed) => trace = <<>>

C8_NoStreamAfterClse ==
    (op = "Open" /\ Rets # <<>> /\ Rets[1].cmd = "CLSE")
        => ~(result.st = "ok" /\ result.val # None)

\* C8 (amended): after a first CLSE whose arg1 is local_id Open reads one more
\* CLSE-or-OKAY message; a second CLSE makes it return None, an OKAY makes it
\* return the stream (1, arg0 of that OKAY); Open returns None in no other
\* case, and a first CLSE alone never ends Open normally.
C8_OpenAfterClse ==
    op = "Open" =>
        /\ result = Ok(None) <=> (pc = "idle" /\ Cmds(Rets) = <<"CLSE", "CLSE">>)
        /\ Cmds(Rets) = <<"CLSE", "OKAY">> =>
              result = Ok(<<Connection(1, last.arg0)>>)
        /\ (Cmds(Rets) = <<"CLSE">> /\ pc = "idle") => result.st = "err"
        /\ Len(Rets) <= 2

C8_Witness ==
    /\ op = "Open" /\ Cmds(Rets) = <<"CLSE", "OKAY">>
    /\ result = Ok(<<Connection(1, 2)>>)

-----------------------------------------------------------------------------
(* Properties of the AdbCommands methods, checked under SpecCmd *)

\* C3 (as claimed): no method sends OPEN while a stream it opened earlier on
\* the transport is acknowledged and not yet closed by a CLSE exchange.
C3_OneStream == pc = "open1" => estab = 0

-----------------------------------------------------------------------------
(* Properties of Connect, checked under SpecConnect *)

AuthSent == SelectSeq(trace, LAMBDA e : IsTx(e, "AUTH"))
AuthRets == SelectSeq(trace, LAMBDA e : IsRet(e, "AUTH"))
CnxnRets == SelectSeq(trace, LAMBDA e : IsRet(e, "CNXN"))

\* C9: with n >= 1 signers the AUTH messages Connect sends are, in order, the
\* signature of signer j over the token of the j-th AUTH reply, for j = 1, 2,
\* ... up to n at most, then one AUTH_RSAPUBLICKEY with the first signer's
\* public key and a NUL, sent only once n + 1 AUTH replies have been read;
\* a CNXN reply ends the handshake: it is the last event and its payload is
\* the banner Connect returns.
C9_AuthOrder ==
    (op = "Connect" /\ Len(rsa_keys) >= 1) =>
        LET n == Len(rsa_keys) IN
        /\ Len(AuthSent) <= n + 1
        /\ Len(AuthSent) <= Len(AuthRets)
        /\ \A j \in DOMAIN AuthSent :
              AuthSent[j] = IF j <= n THEN Signature(rsa_keys[j], AuthRets[j].data)
                            ELSE PublicKey(rsa_keys)
        /\ nsigned = (IF Len(AuthSent) <= n THEN Len(AuthSent) ELSE n)
        /\ CnxnRets # <<>> =>
              /\ Len(CnxnRets) = 1
              /\ trace[Len(trace)] = CnxnRets[1]
              /\ pc = "idle" /\ result = Ok(CnxnRets[1].data)

C9_Witness ==
    /\ op = "Connect" /\ rsa_keys = <<2, 1>>
    /\ Len(AuthSent) = 3
    /\ AuthSent[3] = PublicKey(<<2, 1>>)
    /\ AuthRets[2].data # AuthRets[1].data

\* C10 (as claimed): once Read has returned an AUTH whose arg0 is not
\* AUTH_TOKEN, with at least one signer supplied, Connect has failed with
\* InvalidResponse and has sent nothing after that message.
C10_BadAuthRejected ==
    (op = "Connect" /\ Len(rsa_keys) >= 1
        /\ last.cmd = "AUTH" /\ last.arg0 # AUTH_TOKEN)
    => (pc = "idle" /\ result = Raise("InvalidResponseError"))

\* the read errors that are timeouts of the transport, and all its read errors
ReadTimeouts == {"ReadFailedError", "TcpTimeoutException"}
ReadErrors == ReadTimeouts \cup {"ReadFailedError(io)"}
Enrolling ==
    \E i \in DOMAIN trace : IsTx(trace[i], "AUTH") /\ trace[i].m.arg0 = AUTH_RSAPUBLICKEY
LastEvent == trace[Len(trace)]

\* C11 (as claimed): when Connect ends on a failed read, a timeout of the
\* read that follows AUTH_RSAPUBLICKEY is reported as DeviceAuthError, and
\* every other read failure (a timeout elsewhere in the handshake, another
\* failure during the enrollment wait) is reported unchanged.
C11_TimeoutRelabelled ==
    (op = "Connect" /\ pc = "idle" /\ LastEvent.k = "rx"
        /\ LastEvent.err \in ReadErrors)
    => IF Enrolling /\ LastEvent.err \in ReadTimeouts
       THEN result = Raise("DeviceAuthError")
       ELSE result = Raise(LastEvent.err)

\* C12: with no signers, an AUTH returned as the reply to CNXN ends Connect
\* at once with DeviceAuthError: that AUTH is the last event, no AUTH message
\* is sent and nothing is read after it.
C12_NoSigners ==
    (op = "Connect" /\ rsa_keys = <<>> /\ AuthRets # <<>>) =>
        /\ pc = "idle" /\ result = Raise("DeviceAuthError")
        /\ AuthSent = <<>>
        /\ Len(AuthRets) = 1 /\ LastEvent = AuthRets[1]

C12_Witness ==
    /\ op = "Connect" /\ rsa_keys = <<>> /\ AuthRets # <<>>
    /\ Len(trace) > 2
    /\ result.st = "err"

\* C13: the first thing Connect sends is CNXN(0x01000000, 4096,
\* 'host::' + banner + NUL), and it sends no other CNXN; when the first message
\* Read returns is CNXN, Connect returns its payload and is over: that message
\* is the last event, no AUTH is sent and no signer has signed.
C13_ConnectPlain ==
    op = "Connect" =>
        /\ trace[1] = Tx(AdbMessage("CNXN", 16777216, 4096,
                                    <<104, 111, 115, 116, 58, 58>> \o Banner \o <<0>>))
        /\ Len(SelectSeq(trace, LAMBDA e : IsTx(e, "CNXN"))) = 1
        /\ (Rets # <<>> /\ Rets[1].cmd = "CNXN") =>
              /\ pc = "idle" /\ result = Ok(Rets[1].data)
              /\ LastEvent = Rets[1]
              /\ AuthSent = <<>> /\ nsigned = 0

C13_Witness ==
    /\ op = "Connect" /\ Len(rsa_keys) = 2
    /\ Rets # <<>> /\ Rets[1].cmd = "CNXN"
    /\ result = Ok(<<5>>)

-----------------------------------------------------------------------------
(* Properties of AdbMessage.Read, checked under Spec *)

\* C14 (as claimed): the checksum declared by the header of a message that
\* Read returned is the sum of the payload bytes read for it, whatever the
\* payload's length.
C14_ChecksumVerified ==
    Rets # <<>> => last.ck = SumBytes(Rets[Len(Rets)].data)

\* C15 (as claimed): the magic of the header of a message that Read returned
\* is its opcode XOR 0xFFFFFFFF.
C15_MagicVerified ==
    Rets # <<>> =>
        \A i \in 1..4 : last.magic[i] = 255 - MakeWireIDs(last.cmd)[i]

\* C16 (as claimed): a FAIL header carrying the stream's ids that is read
\* while Write waits for its OKAY, or during ReadUntilClose, ends the operation
\* with AdbCommandFailure.
C16_FailReported ==
    (op \in {"Write", "ReadUntilClose"} /\ trace # <<>> /\ LastEvent.k = "rx"
        /\ LastEvent.cmd = "FAIL" /\ LastEvent.mine)
    => result = Raise("AdbCommandFailureException")

-----------------------------------------------------------------------------
(* Properties of the AdbCommands methods, checked under SpecCmd *)

\* C17 (as claimed): whatever bytes the payload of a WRTE holds, the command
\* takes it and reads on until CLSE: a command does not end on a payload it
\* was just given, so that its result is the payloads joined.
C17_CommandJoins ==
    (meth.name = "Shell" /\ op = "ReadUntilClose" /\ trace # <<>>
        /\ LastEvent.k = "yield")
    => pc = "ruc"

\* C18 (as claimed): a method that ends while the stream operation it was
\* running has failed with a protocol-layer or transport error reports an
\* error to its caller.
C18_ErrorsPropagate ==
    [][(meth.name # "none" /\ meth'.name = "none" /\ result.st = "err")
          => cres'.st = "err"]_vars

\* a step in which Push, Pull, Stat or List ends, its sync: stream having
\* been established
SyncEnds ==
    /\ meth.name \in SyncMethods /\ meth'.name = "none"
    /\ op \in StreamOps

\* C35: when Push, Pull, Stat or List ends after its sync: stream was
\* established, by a return or by an error, the host has sent the CLSE of
\* that stream.
C35_SyncCloses ==
    [][SyncEnds =>
         /\ op = "Close"
         /\ trace[1] = Tx(AdbMessage("CLSE", cur[1].lid, cur[1].rid, <<>>))]_vars

\* a step in which the interactive shell helper, waiting for the delimiter,
\* has taken the payload of a WRTE and goes on to read another
ShellReadsOn ==
    /\ meth.name = "InteractiveShell" /\ meth.has_cmd /\ meth.delim
    /\ op = "ReadUntil" /\ pc = "idle"
    /\ pc' = "ru"

\* C36: with a delimiter, the interactive shell helper reads no further
\* WRTE once the delimiter occurs in the output accumulated since the
\* command was written, also when the bytes of the delimiter came in two
\* consecutive WRTE messages.
C36_StopsAtDelim == [][ShellReadsOn => ~DelimIn(meth'.stdout_stream)]_vars

\* the one message Reboot sends
RebootOpen == Tx(AdbMessage("OPEN", LOCAL_ID, 0, RebootDest \o <<0>>))

\* C37 (as claimed): Reboot sends one OPEN and nothing else, and ends once
\* one reply of the device has been read: it reads no message after it.
C37_OneReply ==
    meth.name = "Reboot" =>
        /\ op = "Open" /\ Sent = <<RebootOpen>>
        /\ Len(Rets) <= 1
        /\ Len(Rets) = 1 => pc = "idle"

\* C37 (amended): Reboot sends one OPEN and nothing else, no CLSE, and runs
\* no stream operation but that Open; it ends once Open has read its reply,
\* which is one message, or two when the first is a CLSE with the local id
\* of the stream: Open then reads one more CLSE or OKAY.  Reboot does
\* nothing after its Open.
C37_RebootOpens ==
    /\ [](meth.name = "Reboot" =>
            /\ op = "Open" /\ Sent = <<RebootOpen>>
            /\ Len(Rets) <= 2
            /\ Len(Rets) = 1 =>
                  \/ pc = "idle"
                  \/ pc = "open2" /\ Rets[1].cmd = "CLSE" /\ last.arg1 = LOCAL_ID
            /\ Len(Rets) = 2 => (pc = "idle" /\ Rets[1].cmd = "CLSE"))
    /\ [][(meth.name = "Reboot" /\ meth'.name = "none") =>
            (pc = "idle" /\ pc' = "idle" /\ trace' = <<>>)]_vars

\* Reboot has been answered CLSE and then OKAY, and its Open has returned
C37_Witness ==
    /\ meth.name = "Reboot" /\ pc = "idle"
    /\ Cmds(Rets) = <<"CLSE", "OKAY">>
    /\ result.st = "ok" /\ result.val # None

-----------------------------------------------------------------------------
(* Properties of the filesync layer, checked under SpecSync *)

\* C19: after any sequence of Send calls, whatever the tags and the payload
\* lengths (a file name or path longer than MAX_ADB_DATA - 8 bytes
\* included), the bytes buffered and not yet sent never exceed MAX_ADB_DATA,
\* so no payload a flush hands to the stream is longer than MAX_ADB_DATA.
C19_SendBufferBounded ==
    /\ send_idx <= MAX_ADB_DATA
    /\ \A i \in 1..Len(written) : written[i].n <= MAX_ADB_DATA

\* Push has handed all its packets to the stream and waits for the reply
Pushed == fpc = "reply" /\ job.kind = "push"

\* the DATA packets i..j of ps carry the source from offset off on, chunk
\* by chunk, each chunk non-empty and at most MAX_PUSH_DATA bytes long
RECURSIVE CarriesSource(_, _, _, _)
CarriesSource(ps, i, j, off) ==
    IF i > j THEN off = job.datafile.size
    ELSE /\ ps[i].id = "DATA"
         /\ ps[i].size = ps[i].data.n
         /\ ps[i].data.n > 0
         /\ ps[i].data.n <= MAX_PUSH_DATA
         /\ ps[i].data.what = What("src", off, ps[i].data.what.b)
         /\ CarriesSource(ps, i + 1, j, off + ps[i].data.what.b)

\* C20: whatever the source, the bytes Push hands to the stream, all flushes
\* concatenated in order, are one SEND packet carrying '<filename>,<mode>',
\* then one DATA packet for each non-empty chunk read, in source order, then
\* one DONE packet whose size field is mtime; every DATA payload is at most
\* MAX_PUSH_DATA bytes, the DATA payloads concatenate to the source, and no
\* packet is lost, duplicated or reordered by the buffering.
C20_PushStream ==
    Pushed =>
        LET ps == Packets(written)
            info == FileInfo(job.filename, job.st_mode)
        IN /\ send_idx = 0
           /\ Len(ps) = job.reads + 2
           /\ ps[1] = Packet("SEND", info.n, info)
           /\ CarriesSource(ps, 2, Len(ps) - 1, 0)
           /\ ps[Len(ps)] = Packet("DONE", job.mtime, NoData)

\* a Push that has ended, and not by a failure of the stream
PushEnded == fpc = "idle" /\ job.kind = "push" /\ fres.err # "ReadFailedError"

\* the bytes of the device the host has received
Received(ps) == Len(Join([i \in 1..Len(ps) |-> Serialize(ps[i])])) - Len(dwire)

\* what the claim has Push answer to the first packet of the device
PushOutcome(p) ==
    CASE p.id = "OKAY" -> Ok(<<>>)
      [] p.id = "FAIL" -> Failed("PushFailedError", p.data)
      [] OTHER -> Raise("InvalidResponseError")

\* C21: after sending DONE, Push flushes all that is still buffered and reads
\* exactly one filesync packet: OKAY makes Push return, FAIL makes it fail
\* with PushFailedError carrying the payload of the FAIL, any other tag makes
\* it fail with InvalidResponseError.
C21_PushReply ==
    /\ Pushed => (send_idx = 0 /\ send_buffer = <<>>)
    /\ PushEnded => (dpk # <<>> /\ fres = PushOutcome(dpk[1]))
    /\ (Pushed /\ dpk # <<>>) => Received(dpk) < Len(Serialize(dpk[1]))

\* the place of the first packet of ps that is not a DATA, 0 if there is none
RECURSIVE FirstOther(_, _)
FirstOther(ps, i) ==
    IF i > Len(ps) THEN 0
    ELSE IF ps[i].id # "DATA" THEN i
    ELSE FirstOther(ps, i + 1)

\* the place of the DONE that ends the DATA packets of the device, 0 if the
\* device has produced no DATA* DONE yet
DoneAt(ps) ==
    LET i == FirstOther(ps, 1)
    IN IF i > 0 /\ ps[i].id = "DONE" THEN i ELSE 0

\* the payloads of the packets before place i, and the bytes of the packets
\* up to place i
PayloadsBefore(ps, i) == Join([k \in 1..(i - 1) |-> ps[k].data])
BytesUpTo(ps, i) == Join([k \in 1..i |-> Serialize(ps[k])])

Pulling == fpc = "reply" /\ job.kind = "pull"
PullEnded == fpc = "idle" /\ job.kind = "pull" /\ fres.err # "ReadFailedError"

ReadCalled == fpc = "idle" /\ job'.kind = "read"

SendCalled == fpc = "idle" /\ fpc' = "idle" /\ send_idx' # 0
SentPacket == send_buffer'[Len(send_buffer')]

\* what Send does when the packet does not fit: the bytes buffered, which
\* are some, are written and the packet is alone in the buffer
FlushedFirst ==
    /\ send_idx # 0
    /\ written' = Append(written, [n |-> send_idx, packets |-> send_buffer])
    /\ send_buffer' = <<SentPacket>>
    /\ send_idx' = PacketLen(SentPacket)

\* what Send does when the packet fits: it is added and nothing is written
OnlyBuffered ==
    /\ written' = written
    /\ send_buffer' = Append(send_buffer, SentPacket)
    /\ send_idx' = send_idx + PacketLen(SentPacket)

\* C32: Send writes to the stream exactly when the bytes buffered and the
\* new packet, header and payload, are more than MAX_ADB_DATA; it then
\* writes the bytes buffered, which are not empty, and buffers the packet;
\* otherwise it only adds the packet to the buffer.
C32_SendFlushes ==
    [][SendCalled =>
         IF send_idx + PacketLen(SentPacket) > MAX_ADB_DATA
         THEN FlushedFirst ELSE OnlyBuffered]_vars

\* an operation that reads packets and has not been ended by the stream
Reading ==
    /\ job.kind # "none"
    /\ fpc \in {"reply", "idle"}
    /\ fres.err # "ReadFailedError"

\* all the bytes the WRTE messages received so far have carried, joined
Delivered ==
    LET all == BytesUpTo(dpk, Len(dpk))
    IN SubSeq(all, 1, Len(all) - Len(dwire))

\* the operation as it was before it received anything
Afresh == [job EXCEPT !.hdr = NoHdr, !.sink = <<>>]

\* the bytes the read the operation is blocked in has asked for
Wanted ==
    IF job.hdr # NoHdr THEN job.hdr.ints[Len(job.hdr.ints)]
    ELSE CASE job.kind = "stat" -> 16
           [] job.kind = "list" -> 20
           [] OTHER -> 8

\* C33: what an operation has been delivered, packets, result and bytes
\* left over, is what it is delivered when the payloads of the WRTE messages
\* received arrive joined in one message, however the device has split
\* them; and the operation waits for another WRTE only while it holds fewer
\* bytes than its read has asked for.
C33_SplitsUnseen ==
    Reading =>
      LET o == Resume(Afresh, Delivered)
      IN /\ fpc = o.pc
         /\ recv_buffer = o.buf
         /\ job.hdr = o.hdr
         /\ job.sink = o.sink
         /\ fres = o.res
         /\ fpc = "reply" => Len(recv_buffer) < Wanted

\* a Pull that has taken one DATA packet waits for the second byte of the
\* payload of the next, whose first nine bytes came in three messages
C33_Witness ==
    /\ fpc = "reply" /\ job.kind = "pull"
    /\ job.sink = <<7>>
    /\ job.hdr.id = "DATA" /\ job.hdr.ints = <<2>>
    /\ recv_buffer = <<8>>
    /\ job.rx = 4

\* a step in which a Write on the stream of the Write that has just ended
\* sends its WRTE
WritesAgain ==
    /\ pc = "idle" /\ op = "Write"
    /\ pc' = "write" /\ op' = "Write"
    /\ cur' = cur

\* the Write that has ended has read an OKAY after its WRTE
OkayRead == \E i \in DOMAIN trace : trace[i].k = "rx" /\ trace[i].cmd = "OKAY"

\* C34: the host sends no WRTE on a stream while an earlier WRTE of its own
\* is not acknowledged: when a Write is followed by the WRTE of the next
\* Write on the same stream, an OKAY of the device has been read between
\* the two.
C34_AckedBeforeNext == [][WritesAgain => OkayRead]_vars

\* the first of the messages sent that the reader expects, which is what
\* Read returns of them over a transport that does not fragment, and the
\* bytes of the device such a Read leaves unread
Unfragmented ==
    LET m == IF rd.sent[1].cmd \in ExpectedCmds THEN rd.sent[1] ELSE rd.sent[2]
    IN Returned4(m.cmd, m.arg0, m.arg1, m.data)
LeftUnread ==
    IF rd.sent[1].cmd \in ExpectedCmds THEN Pack(rd.sent[2]) ELSE <<>>

\* C38: however the transport fragments its reads, each BulkRead returning
\* between one byte and the bytes asked for, AdbMessage.Read returns the
\* message it returns over a transport that does not fragment: it does not
\* fail, it takes exactly the header and the payload of the message and no
\* byte of the message behind, and it never asks for more than is missing.
C38_FragmentsUnseen ==
    /\ rd.pc # "raised"
    /\ rd.asked <= rd.missing
    /\ rd.pc = "done" => (rd.ret = <<Unfragmented>> /\ rd.wire = LeftUnread)

\* the place of the first packet of the device whose tag the operation does
\* not expect, 0 if there is none
RECURSIVE FirstUnexpected(_, _)
FirstUnexpected(ps, i) ==
    IF i > Len(ps) THEN 0
    ELSE IF ps[i].id \notin job.expected THEN i
    ELSE FirstUnexpected(ps, i + 1)

\* the bytes of the header Stat, List or Pull reads
HeaderBytes == CASE job.kind = "stat" -> 16 [] job.kind = "list" -> 20 [] OTHER -> 8

\* Stat, List or Pull has ended on an error that is not one of the stream
TagRejected ==
    /\ job.kind \in {"stat", "list", "pull"}
    /\ fpc = "idle" /\ fres.st = "err" /\ fres.err # "ReadFailedError"

\* C40: in Stat, List and Pull a packet whose tag is not expected ends the
\* operation once its header is received, with AdbCommandFailureException
\* when the tag is FAIL and with InvalidResponseError for every other tag.
C40_UnexpectedTag ==
    LET i == FirstUnexpected(dpk, 1)
    IN /\ TagRejected =>
            /\ i > 0
            /\ fres.err = IF dpk[i].id = "FAIL" THEN "AdbCommandFailureException"
                          ELSE "InvalidResponseError"
       /\ (job.kind \in {"stat", "list", "pull"} /\ fpc = "reply" /\ i > 0)
            => Received(dpk) < Len(BytesUpTo(dpk, i - 1)) + HeaderBytes

-----------------------------------------------------------------------------
(* Properties of the fastboot commands, checked under SpecFastboot *)

\* a download is running or was the last command: Download or FlashFromFile
Downloading == fbjob.name \in {"download", "flashfromfile"}

\* the k-th response read is the first that is no INFO
FinalAt(k) ==
    /\ k \in 1..Len(usbin)
    /\ usbin[k].header # "INFO"
    /\ \A i \in 1..(k - 1) : usbin[i].header = "INFO"

\* the bulk writes that carry bytes of the source
PayloadWrites == {i \in 1..Len(usbout) : usbout[i].kind = "data"}

\* C23: in a download of N bytes, a DATA response that announces a size
\* other than N ends the command with FastbootTransferError and no payload
\* write; payload is written only after a DATA response announcing N.
C23_DownloadSize ==
    Downloading =>
      /\ \A k \in 1..Len(usbin), n \in SourceLens :
            (FinalAt(k) /\ usbin[k] = Response("DATA", Hex8(n)) /\ n # fbjob.N)
            => /\ fbpc = "idle"
               /\ fbres = Raise("FastbootTransferError")
               /\ PayloadWrites = {}
      /\ PayloadWrites # {}
         => \E k \in 1..Len(usbin) :
              FinalAt(k) /\ usbin[k] = Response("DATA", Hex8(fbjob.N))

C23_Witness ==
    /\ fbjob.name = "download"
    /\ fbjob.N = 9774
    /\ usbin = <<Response("INFO", <<1>>), Response("DATA", Hex8(24))>>
    /\ usbout = <<CmdWrite("download", Hex8(9774))>>
    /\ fbres = Raise("FastbootTransferError")

\* a simple command is running or was the last command
Simple == fbjob.name \in SimpleCommands

\* the INFO responses read, and the calls of info_cb for them
InfosRead == SelectSeq(usbin, LAMBDA r : r.header = "INFO")
InfosPassed == SelectSeq(cbs, LAMBDA c : c.cb = "info" /\ c.header = "INFO")

\* how a command ends on a final response r
SimpleOutcome(r) ==
    CASE r.header = "OKAY" -> Ok(r.remaining)
      [] r.header = "FAIL" -> Failed("FastbootRemoteFailure", r.remaining)
      [] r.header = "DATA" -> Raise("FastbootStateMismatch")
      [] OTHER -> Raise("FastbootInvalidResponse")

\* C24: a simple command is one bulk write; every INFO read is passed to
\* info_cb and reading goes on; the first response that is no INFO is the
\* last one read and ends the command: OKAY with its trailing bytes as the
\* result, FAIL with FastbootRemoteFailure, DATA with FastbootStateMismatch,
\* any other tag with FastbootInvalidResponse.
C24_SimpleCommand ==
    Simple =>
      /\ usbout = <<CmdWrite(fbjob.name, fbjob.arg)>>
      /\ Len(InfosPassed) = Len(InfosRead)
      /\ \A i \in 1..Len(InfosRead) : InfosPassed[i].remaining = InfosRead[i].remaining
      /\ (\A k \in 1..Len(usbin) : ~FinalAt(k))
         => fbpc = "resp" \/ fbres = Raise("ReadFailedError")
      /\ \A k \in 1..Len(usbin) :
            FinalAt(k) => /\ k = Len(usbin)
                          /\ fbpc = "idle"
                          /\ fbres = SimpleOutcome(usbin[k])

\* the j-th response read is the first that is no INFO after the k-th
NextFinal(k, j) ==
    /\ j \in (k + 1)..Len(usbin)
    /\ usbin[j].header # "INFO"
    /\ \A i \in (k + 1)..(j - 1) : usbin[i].header = "INFO"

\* the download has its DATA for the size sent at k and its final OKAY at j
DownloadDone(k, j) ==
    /\ FinalAt(k)
    /\ usbin[k] = Response("DATA", Hex8(fbjob.N))
    /\ NextFinal(k, j)
    /\ usbin[j].header = "OKAY"

\* the bulk writes that are the flash command of the partition
FlashWrites == {i \in 1..Len(usbout) : usbout[i] = CmdWrite("flash", fbjob.arg)}

\* C25: FlashFromFile writes flash:<partition> only once the final OKAY of
\* the download has been read, as its last write; a download that failed
\* leaves no flash command written; a FlashFromFile that returns returns
\* the result of the download followed by the result of the flash.
C25_FlashFromFile ==
    fbjob.name = "flashfromfile" =>
      /\ FlashWrites # {}
         => /\ FlashWrites = {Len(usbout)}
            /\ \E k, j \in 1..Len(usbin) : DownloadDone(k, j)
      /\ (fbres.st = "err" /\ ~\E k, j \in 1..Len(usbin) : DownloadDone(k, j))
         => FlashWrites = {}
      /\ fbres.st = "ok"
         => \E k, j, m \in 1..Len(usbin) :
              /\ DownloadDone(k, j)
              /\ NextFinal(j, m)
              /\ m = Len(usbin)
              /\ usbin[m].header = "OKAY"
              /\ fbres.val = usbin[j].remaining \o usbin[m].remaining

C25_Witness ==
    /\ fbjob.name = "flashfromfile"
    /\ fbjob.N = 9774
    /\ fbres = Ok(<<1, 2>>)
    /\ FlashWrites = {Len(usbout)}
    /\ Len(usbin) = 4

\* the payload writes and the calls of progress_callback, in order
Payload == SelectSeq(usbout, LAMBDA w : w.kind = "data")
Progresses == SelectSeq(cbs, LAMBDA c : c.cb = "progress")

\* the device has accepted the size of the download
Accepted == \E k \in 1..Len(usbin) : FinalAt(k) /\ usbin[k] = Response("DATA", Hex8(fbjob.N))

\* the bytes of the first i payload writes
RECURSIVE Written(_)
Written(i) == IF i = 0 THEN 0 ELSE Written(i - 1) + Payload[i].bytes

\* C39: once the device has accepted N, the loop that writes the payload
\* ends after finitely many bulk writes, whatever the source yields, fewer
\* bytes than N or more included, and the final response is read.
C39_WriteEnds == (Downloading /\ Accepted) => fbpc # "hung"

\* C26: once the device has accepted N for a source of exactly N bytes the
\* payload is ceil(N / (chunk_kb * 1024)) bulk writes of at most
\* chunk_kb * 1024 bytes each, in the order of the source, N bytes in all,
\* and a progress callback has one call per write, with the bytes written
\* so far and N, the last being (N, N).
C26_Chunks ==
    (Downloading /\ Accepted /\ fbjob.size = fbjob.N) =>
      LET chunk == fbjob.chunk_kb * 1024
      IN /\ fbpc # "hung"
         /\ Len(Payload) = (fbjob.N + chunk - 1) \div chunk
         /\ \A i \in 1..Len(Payload) :
               /\ Payload[i].bytes <= chunk
               /\ Payload[i].off = Written(i - 1)
         /\ Written(Len(Payload)) = fbjob.N
         /\ fbjob.progress_callback # "none"
            => /\ Len(Progresses) = Len(Payload)
               /\ \A i \in 1..Len(Progresses) :
                     Progresses[i].a = Written(i) /\ Progresses[i].b = fbjob.N

\* a callback of the command has raised
CallbackRaised == \E i \in 1..Len(cbs) : cbs[i].raised

\* C27: an exception raised by info_cb or by progress_callback does not
\* leave the fastboot command that called it: no command ends with the
\* exception of a callback, and the responses read after a callback raised
\* are read as they are when it returns, up to the final one.
C27_CallbacksContained ==
    CallbackRaised =>
      /\ fbres # Raise("CallbackError")
      /\ fbpc = "idle" => \E k \in 1..Len(usbin) : usbin[k].header # "INFO"

-----------------------------------------------------------------------------
(* Properties of the USB handles, checked under SpecUsb *)

\* the handles that are open, and whether every call has returned
OpenHandles == {h \in Handles : handle[h] # 0}
Quiet == \A t \in Threads : tpc[t].op = "none"

\* what the handles of the set hs show: closed, and no bulk transfer done
\* since they were closed
ShutOut(hs) == \A h \in hs : handle[h] = 0 /\ bulk[h] # "ok"

-----------------------------------------------------------------------------
(* Properties of the codec, checked under SpecCodec *)

\* a XOR b on n bits
RECURSIVE Xor(_, _, _)
Xor(a, b, n) ==
    IF n = 0 THEN 0
    ELSE (((a % 2) + (b % 2)) % 2) + 2 * Xor(a \div 2, b \div 2, n - 1)

\* the sum of the bytes lo to hi of a payload
RECURSIVE SumOf(_, _, _)
SumOf(data, lo, hi) ==
    IF lo > hi THEN 0
    ELSE IF lo = hi THEN data[lo]
    ELSE SumOf(data, lo, (lo + hi) \div 2) + SumOf(data, (lo + hi) \div 2 + 1, hi)

\* C29: in the packed header of every message the codec builds, for each of
\* the seven commands and payloads of up to MAX_ADB_DATA bytes, the magic
\* word is the command word XOR 0xFFFFFFFF, the length word is the length
\* of the payload and the checksum word is the sum of the payload bytes
\* (below 2^32 for these payloads, so that the sum is the sum modulo 2^32).
C29_PackedHeader ==
    built.command # "none" =>
      /\ Len(built.header) = HeaderLen
      /\ Word(built.header, 1) = MakeWireIDs(built.command)
      /\ \A i \in 1..4 :
            Word(built.header, 6)[i] = Xor(Word(built.header, 1)[i], 255, 8)
      /\ UnLE4(Word(built.header, 4)) = Len(built.data)
      /\ UnLE4(Word(built.header, 5)) = SumOf(built.data, 1, Len(built.data))

C29_Witness ==
    /\ built.command = "WRTE"
    /\ Len(built.data) = MAX_ADB_DATA
    /\ UnLE4(Word(built.header, 5)) = 1044480
    /\ Word(built.header, 6) = <<168, 173, 171, 186>>

\* the reads of 24 bytes of the running operation that were given bytes
\* that are no header of the device
Misframed ==
    {i \in 1..Len(trace) :
       trace[i].k = "rx" /\ trace[i].cmd = "none" /\ trace[i].err = "ValueError"}

\* C30: Read stays aligned with the frames of the device: a message it skips
\* leaves none of its payload on the wire, so that every block of 24 bytes
\* it unpacks is a header the device sent.
C30_FrameAligned ==
    /\ stray = <<>>
    /\ Misframed = {}

====
